---- MODULE Spec2Model ----
(***************************************************************************)
(* Audit tools of the iOS simulator MCP server.                            *)
(*                                                                         *)
(* The model follows one tool invocation at a time through its handler.    *)
(* A handler runs atomically between two awaits; every await is a request  *)
(* to the debug server, whose outcome the environment chooses when the     *)
(* request completes.                                                      *)
(*                                                                         *)
(* Representation:                                                         *)
(*   - a JavaScript object is a record; an optional property that is       *)
(*     undefined or null is a field missing from the record;               *)
(*   - a text is the string the code builds; `lines` is the array the      *)
(*     code joins with "\n";                                               *)
(*   - contrast ratios are in hundredths (450 is 4.50);                    *)
(*   - the non-ASCII characters of the texts are transliterated: the check *)
(*     mark is [ok], the warning sign [warn], the cross mark [fail], the   *)
(*     multiplication sign x and the superscript two 2.                    *)
(***************************************************************************)
EXTENDS Integers, Sequences, FiniteSets, TLC

\* ------------------------------------------------------------------ bounds
\* longest array a single-category tool or ios_audit_accessibility receives
MaxLen == 2
\* longest array ios_audit_all receives from one endpoint
MaxAllLen == 2
\* the most simulators simctl reports
MaxDevices == 2
\* the most lines the child of streamLogs writes
MaxLines == 2
\* the longest text passed to truncateResponse
MaxText == 120

\* ------------------------------------------------------------ enumerations
JSON == "json"
MARKDOWN == "markdown"
ResponseFormat == {JSON, MARKDOWN}

TouchTool == "ios_audit_touch_targets"
ContrastTool == "ios_audit_contrast"
LayoutTool == "ios_audit_layout"
AccessibilityTool == "ios_audit_accessibility"
AllTool == "ios_audit_all"
Tools == {TouchTool, ContrastTool, LayoutTool, AccessibilityTool, AllTool}

\* thresholds of constants.ts; contrast ratios in hundredths
MIN_TOUCH_TARGET_SIZE == 44
WCAG_AA_CONTRAST_NORMAL == 450
WCAG_AA_CONTRAST_LARGE == 300
WCAG_AAA_CONTRAST_NORMAL == 700
WCAG_AAA_CONTRAST_LARGE == 450

\* endpoints of the debug server used by the audit tools
TouchEP == "/audit/touch-targets"
ContrastEP == "/audit/contrast"
LayoutEP == "/audit/layout"
InteractiveEP == "/interactive"

\* --------------------------------------------------------- telemetry data
Frame(w, h) == [x |-> 0, y |-> 0, width |-> w, height |-> h]

\* TouchTargetAudit values the debug server may send; meetsMinimum and
\* touchableArea are computed by the server, the tools only read them.
TouchTargetAuditValues ==
    { [viewId |-> "btn1", frame |-> Frame(30, 30), touchableArea |-> 900,
       meetsMinimum |-> FALSE],
      [viewId |-> "btn2", frame |-> Frame(44, 44), touchableArea |-> 1936,
       meetsMinimum |-> TRUE],
      [viewId |-> "btn3", accessibilityLabel |-> "Close",
       frame |-> Frame(50, 20), touchableArea |-> 1000,
       meetsMinimum |-> FALSE,
       recommendation |-> "Increase size to at least 44x44pt"],
      [viewId |-> "btn4", frame |-> Frame(40, 40), touchableArea |-> 1600,
       meetsMinimum |-> TRUE],
      [viewId |-> "btn5", frame |-> Frame(-10, 44), touchableArea |-> 440,
       meetsMinimum |-> FALSE] }

ColorInfo(hex) == [hex |-> hex]

\* ContrastCheckResult values the debug server may send.
ContrastCheckResultValues ==
    { [viewId |-> "lbl1", foregroundColor |-> ColorInfo("#999999"),
       backgroundColor |-> ColorInfo("#FFFFFF"), contrastRatio |-> 285,
       meetsWCAG_AA |-> FALSE, meetsWCAG_AAA |-> FALSE],
      [viewId |-> "lbl2", foregroundColor |-> ColorInfo("#767676"),
       backgroundColor |-> ColorInfo("#FFFFFF"), contrastRatio |-> 454,
       meetsWCAG_AA |-> TRUE, meetsWCAG_AAA |-> FALSE,
       text |-> "Title", fontSize |-> 17],
      [viewId |-> "lbl3", foregroundColor |-> ColorInfo("#000000"),
       backgroundColor |-> ColorInfo("#FFFFFF"), contrastRatio |-> 2100,
       meetsWCAG_AA |-> TRUE, meetsWCAG_AAA |-> TRUE],
      [viewId |-> "lbl4", foregroundColor |-> ColorInfo("#888888"),
       backgroundColor |-> ColorInfo("#FFFFFF"), contrastRatio |-> 354,
       meetsWCAG_AA |-> FALSE, meetsWCAG_AAA |-> TRUE,
       text |-> "Body"] }

\* layout issues the debug server may send
LayoutIssueValues ==
    { [viewId |-> "view1", issue |-> "Ambiguous layout",
       hasAmbiguousLayout |-> TRUE,
       translatesAutoresizingMaskIntoConstraints |-> FALSE],
      [viewId |-> "view2", issue |-> "Autoresizing mask",
       hasAmbiguousLayout |-> FALSE,
       translatesAutoresizingMaskIntoConstraints |-> TRUE] }

\* interactive elements the debug server may send; label is optional
InteractiveElementValues ==
    { [viewId |-> "btn1", type |-> "UIButton", frame |-> Frame(30, 30)],
      [viewId |-> "btn2", type |-> "UIButton", label |-> "",
       frame |-> Frame(44, 44)],
      [viewId |-> "btn3", type |-> "UIButton", label |-> "Close",
       frame |-> Frame(50, 20)],
      [viewId |-> "view1", type |-> "UIView", frame |-> Frame(100, 100)] }

\* all arrays over S of length at most n
SeqUpTo(S, n) == UNION { [1..k -> S] : k \in 0..n }

\* ios_audit_all reads only the length of an array and one flag of each of
\* its elements, so it is explored on the values that differ in that flag.
AllValues(endpoint) ==
    CASE endpoint = TouchEP ->
           { v \in TouchTargetAuditValues : v.viewId \in {"btn1", "btn2"} }
      [] endpoint = ContrastEP ->
           { v \in ContrastCheckResultValues : v.viewId \in {"lbl1", "lbl3"} }
      [] endpoint = LayoutEP ->
           { v \in LayoutIssueValues : v.viewId = "view1" }
      [] endpoint = InteractiveEP ->
           { v \in InteractiveElementValues :
               v.viewId \in {"btn1", "btn3", "view1"} }

Values(endpoint) ==
    CASE endpoint = TouchEP -> TouchTargetAuditValues
      [] endpoint = ContrastEP -> ContrastCheckResultValues
      [] endpoint = LayoutEP -> LayoutIssueValues
      [] endpoint = InteractiveEP -> InteractiveElementValues

\* the arrays the endpoint may answer with during an invocation of tool t
Bodies(t, endpoint) ==
    IF t = AllTool THEN SeqUpTo(AllValues(endpoint), MaxAllLen)
    ELSE SeqUpTo(Values(endpoint), MaxLen)

\* ------------------------------------------------------------- the client
\* What fetch() and response.json() can do for one request: answer 2xx with
\* a JSON array, answer 2xx with the JSON value null, answer with a non-OK
\* status, throw in fetch (connection refused) or answer 2xx with a body on
\* which response.json() throws.
FetchOutcomes(t, endpoint) ==
    { [ok |-> TRUE, json |-> b] : b \in Bodies(t, endpoint) }
    \cup { [ok |-> TRUE] }
    \cup { [ok |-> FALSE, status |-> 500,
            statusText |-> "Internal Server Error"] }
    \cup { [threw |-> "fetch failed"] }
    \cup { [ok |-> TRUE, threw |-> "Unexpected end of JSON input"] }

\* { success: true, data: await response.json() }
parsedResponse(o) ==
    IF "json" \in DOMAIN o
    THEN [success |-> TRUE, data |-> o.json]
    ELSE [success |-> TRUE]

\* the catch block of request
connectFailure(o) ==
    [success |-> FALSE,
     error |-> "Failed to connect to debug server: " \o o.threw
               \o ". Make sure ClaudeDebugKit is running in your app."]

\* faulty variant: response.ok is not tested
request_statusUnchecked(o) ==
    IF "threw" \in DOMAIN o THEN connectFailure(o) ELSE parsedResponse(o)

\* DebugServerClient.request: never throws, always a DebugServerResponse
request(o) ==
    IF "threw" \in DOMAIN o THEN connectFailure(o)
    ELSE IF ~o.ok
    THEN [success |-> FALSE,
          error |-> "HTTP " \o ToString(o.status) \o ": " \o o.statusText]
    ELSE parsedResponse(o)

\* response.data || []
DataOrEmpty(response) ==
    IF "data" \in DOMAIN response THEN response.data ELSE <<>>

\* response.data?.length || 0
LengthOrZero(response) ==
    IF "data" \in DOMAIN response THEN Len(response.data) ELSE 0

\* ------------------------------------------------------------ text helpers
\* Array.prototype.join
RECURSIVE join(_, _)
join(lines, sep) ==
    IF lines = <<>> THEN ""
    ELSE IF Len(lines) = 1 THEN lines[1]
    ELSE lines[1] \o sep \o join(Tail(lines), sep)

\* a boolean inside a template literal
BoolText(b) == IF b THEN "true" ELSE "false"

\* a number inside a template literal or JSON text
NumberText(n) == ToString(n)

\* a number given in hundredths, as JavaScript writes it (285 is "2.85",
\* 450 is "4.5", 2100 is "21")
HundredthsText(n) ==
    LET whole == n \div 100
        frac == n % 100
    IN IF frac = 0 THEN ToString(whole)
       ELSE IF frac % 10 = 0 THEN ToString(whole) \o "." \o ToString(frac \div 10)
       ELSE IF frac < 10 THEN ToString(whole) \o ".0" \o ToString(frac)
       ELSE ToString(whole) \o "." \o ToString(frac)

\* Number.prototype.toFixed(2) of a number given in hundredths
toFixed2(n) ==
    LET whole == n \div 100
        frac == n % 100
    IN ToString(whole) \o "." \o
       (IF frac < 10 THEN "0" \o ToString(frac) ELSE ToString(frac))

\* ------------------------------------------- JSON.stringify(value, null, 2)
\* A value is rendered as a block of lines; members of an array or object
\* are indented by two spaces and separated by commas.
WithComma(block) ==
    [i \in 1..Len(block) |->
        IF i = Len(block) THEN block[i] \o "," ELSE block[i]]

Indented(block) == [i \in 1..Len(block) |-> "  " \o block[i]]

RECURSIVE Members(_)
Members(blocks) ==
    IF blocks = <<>> THEN <<>>
    ELSE IF Len(blocks) = 1 THEN Indented(blocks[1])
    ELSE Indented(WithComma(blocks[1])) \o Members(Tail(blocks))

JArray(blocks) ==
    IF blocks = <<>> THEN <<"[]">>
    ELSE <<"[">> \o Members(blocks) \o <<"]">>

\* props is a sequence of <<key, block>>; a missing property is not in it
JObject(props) ==
    IF props = <<>> THEN <<"{}">>
    ELSE <<"{">>
         \o Members([i \in 1..Len(props) |->
                <<"\"" \o props[i][1] \o "\": " \o props[i][2][1]>>
                \o Tail(props[i][2])])
         \o <<"}">>

JString(s) == <<"\"" \o s \o "\"">>
JNumber(n) == <<NumberText(n)>>
JBool(b) == <<BoolText(b)>>

\* a string property the object may lack
OptionalString(object, key) ==
    IF key \in DOMAIN object THEN << <<key, JString(object[key])>> >> ELSE <<>>

\* a number property the object may lack
OptionalNumber(object, key) ==
    IF key \in DOMAIN object THEN << <<key, JNumber(object[key])>> >> ELSE <<>>

JFrame(f) ==
    JObject(<< <<"x", JNumber(f.x)>>, <<"y", JNumber(f.y)>>,
               <<"width", JNumber(f.width)>>, <<"height", JNumber(f.height)>> >>)

JTouchTargetAudit(a) ==
    JObject(<< <<"viewId", JString(a.viewId)>> >>
            \o OptionalString(a, "accessibilityLabel")
            \o << <<"frame", JFrame(a.frame)>>,
                  <<"touchableArea", JNumber(a.touchableArea)>>,
                  <<"meetsMinimum", JBool(a.meetsMinimum)>> >>
            \o OptionalString(a, "recommendation"))

JColorInfo(c) == JObject(<< <<"hex", JString(c.hex)>> >>)

JHundredths(n) == <<HundredthsText(n)>>

JContrastCheckResult(c) ==
    JObject(<< <<"viewId", JString(c.viewId)>>,
               <<"foregroundColor", JColorInfo(c.foregroundColor)>>,
               <<"backgroundColor", JColorInfo(c.backgroundColor)>>,
               <<"contrastRatio", JHundredths(c.contrastRatio)>>,
               <<"meetsWCAG_AA", JBool(c.meetsWCAG_AA)>>,
               <<"meetsWCAG_AAA", JBool(c.meetsWCAG_AAA)>> >>
            \o OptionalString(c, "text")
            \o OptionalNumber(c, "fontSize"))

JLayoutIssue(l) ==
    JObject(<< <<"viewId", JString(l.viewId)>>,
               <<"issue", JString(l.issue)>>,
               <<"hasAmbiguousLayout", JBool(l.hasAmbiguousLayout)>>,
               <<"translatesAutoresizingMaskIntoConstraints",
                 JBool(l.translatesAutoresizingMaskIntoConstraints)>> >>)

JAccessibilityIssue(i) ==
    JObject(<< <<"viewId", JString(i.viewId)>>, <<"type", JString(i.type)>>,
               <<"issue", JString(i.issue)>>,
               <<"severity", JString(i.severity)>> >>)

\* JSON.stringify of an array whose elements are rendered as the blocks
stringifyArray(blocks) == join(JArray(blocks), "\n")

\* JSON.stringify(response.data, null, 2) of ios_audit_touch_targets: null
\* when the response has no data
stringifyTouchTargets(response) ==
    IF "data" \in DOMAIN response
    THEN stringifyArray([i \in 1..Len(response.data) |->
                            JTouchTargetAudit(response.data[i])])
    ELSE "null"

\* JSON.stringify(response.data, null, 2) of ios_audit_contrast
stringifyContrast(response) ==
    IF "data" \in DOMAIN response
    THEN stringifyArray([i \in 1..Len(response.data) |->
                            JContrastCheckResult(response.data[i])])
    ELSE "null"

\* ------------------------------------------------------- truncateResponse
TruncationNotice ==
    "\n\n... [Response truncated. Use more specific queries or pagination.]"

\* text.slice(0, end): a negative end counts from the end of the text
slice(text_, end) ==
    LET n == Len(text_)
        e == IF end < 0 THEN (IF n + end < 0 THEN 0 ELSE n + end)
             ELSE (IF end > n THEN n ELSE end)
    IN IF e = 0 THEN "" ELSE SubSeq(text_, 1, e)

truncateResponse(text_, limit_) ==
    IF Len(text_) <= limit_ THEN text_
    ELSE slice(text_, limit_ - 100) \o TruncationNotice

\* ------------------------------------------------------ markdown formatters
\* the truthiness of an optional string property: present and not ""
Truthy(object, key) == key \in DOMAIN object /\ object[key] # ""

\* the lines formatTouchTargetAuditMarkdown pushes for the two filtered lists
touchTargetReport(failing, passing) ==
    LET Item(item) ==
            LET label == IF Truthy(item, "accessibilityLabel")
                         THEN item.accessibilityLabel ELSE item.viewId
            IN << "### " \o label,
                  "- **Size:** " \o NumberText(item.frame.width) \o "x"
                     \o NumberText(item.frame.height) \o "pt (area: "
                     \o NumberText(item.touchableArea) \o "pt2)",
                  "- **Position:** (" \o NumberText(item.frame.x) \o ", "
                     \o NumberText(item.frame.y) \o ")" >>
               \o (IF Truthy(item, "recommendation")
                   THEN << "- **Recommendation:** " \o item.recommendation >>
                   ELSE <<>>)
               \o << "" >>
        Items[i \in 0..Len(failing)] ==
            IF i = 0 THEN <<>> ELSE Items[i - 1] \o Item(failing[i])
    IN << "# Touch Target Audit\n" >>
       \o (IF Len(failing) = 0
           THEN << "[ok] **All touch targets meet minimum size requirements (44x44pt)**\n" >>
           ELSE << "[warn] **" \o NumberText(Len(failing))
                      \o " touch targets are below minimum size**\n",
                   "## Issues\n" >>
                \o Items[Len(failing)])
       \o << "\n**Summary:** " \o NumberText(Len(passing)) \o " passing, "
                \o NumberText(Len(failing)) \o " failing" >>

\* faulty variant: the issue blocks are written for every finding
touchTargetAuditLines_allItems(audit) ==
    touchTargetReport(audit, SelectSeq(audit, LAMBDA a : a.meetsMinimum))

\* the lines formatTouchTargetAuditMarkdown joins
touchTargetAuditLines(audit) ==
    touchTargetReport(SelectSeq(audit, LAMBDA a : ~a.meetsMinimum),
                      SelectSeq(audit, LAMBDA a : a.meetsMinimum))

formatTouchTargetAuditMarkdown(audit) == join(touchTargetAuditLines(audit), "\n")

\* item.text.slice(0, 30)
slice30(text) == IF Len(text) > 30 THEN SubSeq(text, 1, 30) ELSE text

\* the lines pushed for the samples that fail AA, heading included
contrastFailingSection(failing) ==
    LET FailingItem(item) ==
            LET textPreview ==
                    IF Truthy(item, "text")
                    THEN "\"" \o slice30(item.text)
                         \o (IF Len(item.text) > 30 THEN "..." ELSE "") \o "\""
                    ELSE item.viewId
            IN << "### " \o textPreview,
                  "- **Contrast Ratio:** " \o toFixed2(item.contrastRatio) \o ":1",
                  "- **Colors:** " \o item.foregroundColor.hex \o " on "
                     \o item.backgroundColor.hex >>
               \o (IF "fontSize" \in DOMAIN item /\ item.fontSize # 0
                   THEN << "- **Font Size:** " \o NumberText(item.fontSize) \o "pt" >>
                   ELSE <<>>)
               \o << "- **Required:** 4.5:1 (AA) / 7:1 (AAA)", "" >>
        FailingItems[i \in 0..Len(failing)] ==
            IF i = 0 THEN <<>> ELSE FailingItems[i - 1] \o FailingItem(failing[i])
    IN IF Len(failing) > 0
       THEN << "## [fail] Failing WCAG AA\n" >> \o FailingItems[Len(failing)]
       ELSE <<>>

\* the lines pushed for the samples that pass AA but not AAA, heading included
contrastAaOnlySection(aaOnly) ==
    LET AaOnlyItem(item) ==
            LET textPreview ==
                    IF Truthy(item, "text")
                    THEN "\"" \o slice30(item.text) \o "...\""
                    ELSE item.viewId
            IN "- " \o textPreview \o ": " \o toFixed2(item.contrastRatio)
               \o ":1 (" \o item.foregroundColor.hex \o "/"
               \o item.backgroundColor.hex \o ")"
    IN IF Len(aaOnly) > 0
       THEN << "## [ok] Passing AA (not AAA)\n" >>
            \o [i \in 1..Len(aaOnly) |-> AaOnlyItem(aaOnly[i])] \o << "" >>
       ELSE <<>>

\* the last line pushed
contrastSummary(aaa, aaOnly, failing) ==
    "\n**Summary:** " \o NumberText(Len(aaa)) \o " AAA, "
        \o NumberText(Len(aaOnly)) \o " AA only, "
        \o NumberText(Len(failing)) \o " failing"

\* faulty variant: the samples that pass AA are listed before the failing ones
contrastAuditLines_passingFirst(results_) ==
    LET failing == SelectSeq(results_, LAMBDA r : ~r.meetsWCAG_AA)
        aaOnly == SelectSeq(results_, LAMBDA r : r.meetsWCAG_AA /\ ~r.meetsWCAG_AAA)
        aaa == SelectSeq(results_, LAMBDA r : r.meetsWCAG_AAA)
    IN << "# Color Contrast Audit\n" >>
       \o contrastAaOnlySection(aaOnly)
       \o contrastFailingSection(failing)
       \o << contrastSummary(aaa, aaOnly, failing) >>

\* the lines formatContrastAuditMarkdown joins
contrastAuditLines(results_) ==
    LET failing == SelectSeq(results_, LAMBDA r : ~r.meetsWCAG_AA)
        aaOnly == SelectSeq(results_, LAMBDA r : r.meetsWCAG_AA /\ ~r.meetsWCAG_AAA)
        aaa == SelectSeq(results_, LAMBDA r : r.meetsWCAG_AAA)
    IN << "# Color Contrast Audit\n" >>
       \o contrastFailingSection(failing)
       \o contrastAaOnlySection(aaOnly)
       \o << contrastSummary(aaa, aaOnly, failing) >>

formatContrastAuditMarkdown(results_) == join(contrastAuditLines(results_), "\n")

\* ------------------------------------------------------------ tool results
\* { content: [{ type: "text", text }] }
TextResult(text) == [content |-> <<[type |-> "text", text |-> text]>>]

\* the catch block of every handler
ErrorResult(message) ==
    [isError |-> TRUE,
     content |-> <<[type |-> "text", text |-> "Error: " \o message]>>]

IsError(r) == "isError" \in DOMAIN r /\ r.isError
TextOf(r) == r.content[1].text

\* TypeError of formatTouchTargetAuditMarkdown(null) and
\* formatContrastAuditMarkdown(null)
NullFilterMessage == "Cannot read properties of null (reading 'filter')"

\* ------------------------------------------------ single-category handlers
\* handler of ios_audit_touch_targets, after the await
ios_audit_touch_targets(response, fmt) ==
    IF ~response.success THEN ErrorResult(response.error)
    ELSE IF fmt = JSON
    THEN TextResult(stringifyTouchTargets(response))
    ELSE IF "data" \notin DOMAIN response THEN ErrorResult(NullFilterMessage)
    ELSE TextResult(formatTouchTargetAuditMarkdown(response.data))

\* ios_audit_contrast after the success check
contrastResult(response, fmt) ==
    IF fmt = JSON
    THEN TextResult(stringifyContrast(response))
    ELSE IF "data" \notin DOMAIN response THEN ErrorResult(NullFilterMessage)
    ELSE TextResult(formatContrastAuditMarkdown(response.data))

\* faulty variant: a failed request is reported as an audit of no samples
ios_audit_contrast_swallowing(response, fmt) ==
    contrastResult(IF response.success THEN response
                   ELSE [success |-> TRUE, data |-> <<>>], fmt)

\* handler of ios_audit_contrast, after the await
ios_audit_contrast(response, fmt) ==
    IF ~response.success THEN ErrorResult(response.error)
    ELSE contrastResult(response, fmt)

\* the lines ios_audit_layout joins in markdown mode for a non-empty list
layoutLines(issues_) ==
    LET Item(issue) ==
            << "## " \o issue.viewId,
               "- **Issue:** " \o issue.issue,
               "- **Ambiguous:** " \o BoolText(issue.hasAmbiguousLayout),
               "- **translatesAutoresizingMaskIntoConstraints:** "
                  \o BoolText(issue.translatesAutoresizingMaskIntoConstraints),
               "" >>
        Items[i \in 0..Len(issues_)] ==
            IF i = 0 THEN <<>> ELSE Items[i - 1] \o Item(issues_[i])
    IN << "# Auto Layout Issues\n" >> \o Items[Len(issues_)]

NoLayoutIssuesText == "[ok] No Auto Layout issues detected."

\* ios_audit_layout after const issues = response.data || []
layoutResult(issues_, fmt) ==
    IF fmt = JSON THEN TextResult(stringifyArray([i \in 1..Len(issues_) |->
                                            JLayoutIssue(issues_[i])]))
    ELSE IF Len(issues_) = 0 THEN TextResult(NoLayoutIssuesText)
    ELSE TextResult(join(layoutLines(issues_), "\n"))

\* faulty variant: a failed request is reported as an empty list of issues
ios_audit_layout_swallowing(response, fmt) ==
    layoutResult(IF response.success THEN DataOrEmpty(response) ELSE <<>>, fmt)

\* handler of ios_audit_layout, after the await
ios_audit_layout(response, fmt) ==
    IF ~response.success THEN ErrorResult(response.error)
    ELSE layoutResult(DataOrEmpty(response), fmt)

\* ------------------------------------------------- ios_audit_accessibility
\* issues.push({ viewId: el.viewId, type: el.type, issue: "Missing
\* accessibility label", severity: "high" }) for each element of the array
missingLabelIssuesOf(unlabelled) ==
    [i \in 1..Len(unlabelled) |->
        [viewId |-> unlabelled[i].viewId,
         type |-> unlabelled[i].type,
         issue |-> "Missing accessibility label",
         severity |-> "high"]]

\* faulty variant: the generic container type is not exempted
missingLabelIssues_anyType(elements) ==
    missingLabelIssuesOf(SelectSeq(elements, LAMBDA el : ~Truthy(el, "label")))

\* the first loop: one "high" issue per element without label, UIView aside
missingLabelIssues(elements) ==
    missingLabelIssuesOf(
        SelectSeq(elements, LAMBDA el : ~Truthy(el, "label") /\ el.type # "UIView"))

\* issues.push({ viewId: tt.viewId, type: "touch_target", issue: `Touch
\* target too small: ...`, severity: "medium" }) for each element of the array
touchTargetIssuesOf(small) ==
    [i \in 1..Len(small) |->
        [viewId |-> small[i].viewId,
         type |-> "touch_target",
         issue |-> "Touch target too small: "
                   \o NumberText(small[i].frame.width) \o "x"
                   \o NumberText(small[i].frame.height)
                   \o "pt (minimum 44x44pt)",
         severity |-> "medium"]]

\* faulty variant: the test of meetsMinimum is inverted
touchTargetIssues_inverted(touchTargets) ==
    touchTargetIssuesOf(SelectSeq(touchTargets, LAMBDA tt : tt.meetsMinimum))

\* the second loop: one "medium" issue per touch target below the minimum
touchTargetIssues(touchTargets) ==
    touchTargetIssuesOf(SelectSeq(touchTargets, LAMBDA tt : ~tt.meetsMinimum))

\* touchTargetResponse.success ? touchTargetResponse.data || [] : []
touchTargetsOf(touchTargetResponse) ==
    IF touchTargetResponse.success THEN DataOrEmpty(touchTargetResponse)
    ELSE <<>>

\* faulty variant: the touch-target loop runs before the label loop
accessibilityIssues_touchFirst(elements, touchTargets) ==
    touchTargetIssues(touchTargets) \o missingLabelIssues(elements)

\* the issues array after both loops
accessibilityIssues(elements, touchTargets) ==
    missingLabelIssues(elements) \o touchTargetIssues(touchTargets)

\* the lines pushed for one severity group, heading included
severitySection(heading, group) ==
    LET Item(issue) ==
            "- **" \o issue.type \o "** (" \o issue.viewId \o "): " \o issue.issue
    IN IF Len(group) > 0
       THEN << heading >> \o [i \in 1..Len(group) |-> Item(group[i])] \o << "" >>
       ELSE <<>>

\* the last line pushed
accessibilityTotal(issues_, high, medium) ==
    "\n**Total Issues:** " \o NumberText(Len(issues_)) \o " ("
        \o NumberText(Len(high)) \o " high, "
        \o NumberText(Len(medium)) \o " medium)"

\* faulty variant: the medium group is written before the high group
accessibilityLines_mediumFirst(issues_) ==
    LET high == SelectSeq(issues_, LAMBDA i : i.severity = "high")
        medium == SelectSeq(issues_, LAMBDA i : i.severity = "medium")
    IN << "# Accessibility Audit\n" >>
       \o severitySection("## [warn] Medium Severity\n", medium)
       \o severitySection("## [fail] High Severity\n", high)
       \o << accessibilityTotal(issues_, high, medium) >>

\* the lines ios_audit_accessibility joins for a non-empty issues array
accessibilityLines(issues_) ==
    LET high == SelectSeq(issues_, LAMBDA i : i.severity = "high")
        medium == SelectSeq(issues_, LAMBDA i : i.severity = "medium")
    IN << "# Accessibility Audit\n" >>
       \o severitySection("## [fail] High Severity\n", high)
       \o severitySection("## [warn] Medium Severity\n", medium)
       \o << accessibilityTotal(issues_, high, medium) >>

NoAccessibilityIssuesText == "[ok] No accessibility issues detected."

\* what ios_audit_accessibility returns for the issues array
accessibilityResult(issues_, fmt) ==
    IF fmt = JSON THEN TextResult(stringifyArray([i \in 1..Len(issues_) |->
                                            JAccessibilityIssue(issues_[i])]))
    ELSE IF Len(issues_) = 0 THEN TextResult(NoAccessibilityIssuesText)
    ELSE TextResult(join(accessibilityLines(issues_), "\n"))

\* handler of ios_audit_accessibility from the second await to its return
ios_audit_accessibility(interactiveResponse_, touchTargetResponse, fmt) ==
    accessibilityResult(
        accessibilityIssues(DataOrEmpty(interactiveResponse_),
                            touchTargetsOf(touchTargetResponse)),
        fmt)

\* ------------------------------------------------------------ ios_audit_all
\* results.key = value
SetResult(results_, key, value) ==
    [k \in DOMAIN results_ \cup {key} |->
        IF k = key THEN value ELSE results_[k]]

\* Each section takes the handler's locals st = [results, lines] and the
\* response just received, and gives the locals after the section.
\* the body of if (touchResponse.success) { ... }; pass is the test of the
\* conditional that chooses the summary line
touchTargetsSection(touchResponse_, st, failing, pass) ==
    [results |-> SetResult(st.results, "touchTargets",
                    [total |-> LengthOrZero(touchResponse_),
                     failing |-> Len(failing)]),
     lines |-> st.lines \o
        << "## Touch Targets",
           IF pass
           THEN "[ok] All touch targets meet minimum size"
           ELSE "[warn] " \o NumberText(Len(failing))
                \o " elements below 44x44pt",
           "" >>]

\* faulty variant: the pass line is chosen when no touch target was received
allTouchTargets_passWhenEmpty(touchResponse_, st) ==
    IF touchResponse_.success
    THEN touchTargetsSection(touchResponse_, st,
             SelectSeq(DataOrEmpty(touchResponse_), LAMBDA t : ~t.meetsMinimum),
             Len(DataOrEmpty(touchResponse_)) = 0)
    ELSE st

allTouchTargets(touchResponse_, st) ==
    IF touchResponse_.success
    THEN LET failing == SelectSeq(DataOrEmpty(touchResponse_),
                               LAMBDA t : ~t.meetsMinimum)
         IN touchTargetsSection(touchResponse_, st, failing, Len(failing) = 0)
    ELSE st

\* the body of if (contrastResponse.success) { ... }
contrastSection(contrastResponse_, st) ==
    LET failing == SelectSeq(DataOrEmpty(contrastResponse_),
                          LAMBDA c : ~c.meetsWCAG_AA)
    IN [results |-> SetResult(st.results, "contrast",
                       [total |-> LengthOrZero(contrastResponse_),
                        failing |-> Len(failing)]),
        lines |-> st.lines \o
           << "## Color Contrast",
              IF Len(failing) = 0
              THEN "[ok] All text meets WCAG AA contrast"
              ELSE "[warn] " \o NumberText(Len(failing))
                   \o " elements fail WCAG AA",
              "" >>]

\* faulty variant: the contrast section is nested in the touch-target section
allContrast_nested(contrastResponse_, st) ==
    IF contrastResponse_.success /\ "touchTargets" \in DOMAIN st.results
    THEN contrastSection(contrastResponse_, st)
    ELSE st

allContrast(contrastResponse_, st) ==
    IF contrastResponse_.success
    THEN contrastSection(contrastResponse_, st)
    ELSE st

\* the body of if (layoutResponse.success) { ... }
layoutSection(layoutResponse_, st) ==
    LET issues_ == DataOrEmpty(layoutResponse_)
    IN [results |-> SetResult(st.results, "layout",
                       [issues |-> Len(issues_)]),
        lines |-> st.lines \o
           << "## Auto Layout",
              IF Len(issues_) = 0
              THEN "[ok] No layout issues"
              ELSE "[warn] " \o NumberText(Len(issues_))
                   \o " layout issues detected",
              "" >>]

\* faulty variant: a failed layout request is thrown, as the single-category tools do
allLayout_failFast(layoutResponse_, st) ==
    IF layoutResponse_.success
    THEN layoutSection(layoutResponse_, st)
    ELSE [thrown |-> layoutResponse_.error]

allLayout(layoutResponse_, st) ==
    IF layoutResponse_.success
    THEN layoutSection(layoutResponse_, st)
    ELSE st

allAccessibility(interactiveResponse_, st) ==
    IF interactiveResponse_.success
    THEN LET noLabel == SelectSeq(DataOrEmpty(interactiveResponse_),
                               LAMBDA e : ~Truthy(e, "label"))
         IN [results |-> SetResult(st.results, "accessibility",
                            [total |-> LengthOrZero(interactiveResponse_),
                             missingLabels |-> Len(noLabel)]),
             lines |-> st.lines \o
                << "## Accessibility",
                   IF Len(noLabel) = 0
                   THEN "[ok] All interactive elements have labels"
                   ELSE "[warn] " \o NumberText(Len(noLabel))
                        \o " elements missing accessibility labels",
                   "" >>]
    ELSE st

\* JavaScript values of the summary expression: <<n>> is the number n and
\* <<>> is undefined or NaN, which are both falsy.
\* (results.category as ...)?.key
Member(results_, category, key) ==
    IF category \in DOMAIN results_ THEN <<results_[category][key]>> ELSE <<>>

\* 0 + v : NaN when v is undefined
ZeroPlus(v) == IF v = <<>> THEN <<>> ELSE <<0 + v[1]>>

\* a || b
OrElse(a, b) == IF a # <<>> /\ a[1] # 0 THEN a ELSE b

\* const totalIssues = a?.failing || 0 + b?.failing || 0 + c?.issues || 0 +
\* d?.missingLabels || 0, where + binds tighter than ||:
\* ((((a || (0 + b)) || (0 + c)) || (0 + d)) || 0)
totalIssuesOf(results_) ==
    OrElse(
      OrElse(
        OrElse(
          OrElse(Member(results_, "touchTargets", "failing"),
                 ZeroPlus(Member(results_, "contrast", "failing"))),
          ZeroPlus(Member(results_, "layout", "issues"))),
        ZeroPlus(Member(results_, "accessibility", "missingLabels"))),
      <<0>>)[1]

\* the three lines of the summary
summaryLines(total) ==
    << "---",
       "**Total Issues Found:** " \o NumberText(total),
       "\n*Run individual audits for detailed information.*" >>

\* JSON.stringify(results, null, 2): the keys in the order they were set
JResults(results_) ==
    LET Counts2(key, a, b) ==
            IF key \in DOMAIN results_
            THEN << <<key, JObject(<< <<a, JNumber(results_[key][a])>>,
                                      <<b, JNumber(results_[key][b])>> >>)>> >>
            ELSE <<>>
        Counts1(key, a) ==
            IF key \in DOMAIN results_
            THEN << <<key, JObject(<< <<a, JNumber(results_[key][a])>> >>)>> >>
            ELSE <<>>
    IN JObject(Counts2("touchTargets", "total", "failing")
               \o Counts2("contrast", "total", "failing")
               \o Counts1("layout", "issues")
               \o Counts2("accessibility", "total", "missingLabels"))

\* what ios_audit_all returns
allResult(results_, lines_, fmt) ==
    IF fmt = JSON THEN TextResult(join(JResults(results_), "\n"))
    ELSE TextResult(join(lines_, "\n"))

\* ------------------------------------------------------------------- state
VARIABLES
    tool,                 \* the tool being invoked
    format,               \* params.response_format
    pc,                   \* "idle", the endpoint the handler awaits, or "done"
    inflight,             \* endpoints with a request not yet completed
    requests,             \* endpoints requested by this invocation, in order
    touchResponse,        \* what debugClient.auditTouchTargets() resolved to
    contrastResponse,     \* what debugClient.auditContrast() resolved to
    layoutResponse,       \* what debugClient.getLayoutIssues() resolved to
    interactiveResponse,  \* what debugClient.getInteractiveElements() resolved to
    results,              \* ios_audit_all: const results
    lines,                \* ios_audit_all: const lines
    issues,               \* ios_audit_accessibility: const issues
    totalIssues,          \* ios_audit_all: const totalIssues
    result                \* what the handler returned

\* truncateResponse: its arguments and what successive applications returned
VARIABLES
    text,                 \* the text first passed to truncateResponse
    limit,                \* the limit passed to truncateResponse
    truncated             \* the texts returned so far, each from the one before

\* streamLogs: the child process and the closure of the data listener
VARIABLES
    stream,               \* the bytes the child writes to stdout, in all
    emitted,              \* how many of them have been passed to the listener
    buffer,               \* let buffer
    delivered             \* the arguments of the calls of callback, in order

\* the simulators, the commands run on them, and the locals of the simulator
\* tools and of the e2e smoke test
VARIABLES
    devices,              \* what simctl list devices reports
    idbInstalled,         \* whether an executable idb can be found
    params,               \* the arguments of the tool call
    commands,             \* the simctl and idb commands run, in order
    target                \* const device / const udid / const target

auditVars == <<tool, format, pc, inflight, requests, touchResponse,
               contrastResponse, layoutResponse, interactiveResponse, results,
               lines, issues, totalIssues, result>>
truncateVars == <<text, limit, truncated>>
logVars == <<stream, emitted, buffer, delivered>>
simVars == <<devices, idbInstalled, params, commands, target>>

vars == <<auditVars, truncateVars, logVars, simVars>>

\* a local not assigned yet
Unset == [unset |-> TRUE]

\* no tool is running
AuditIdle ==
    /\ tool = "none"
    /\ format = "none"
    /\ pc = "idle"
    /\ inflight = {}
    /\ requests = <<>>
    /\ touchResponse = Unset
    /\ contrastResponse = Unset
    /\ layoutResponse = Unset
    /\ interactiveResponse = Unset
    /\ results = <<>>
    /\ lines = <<>>
    /\ issues = <<>>
    /\ totalIssues = 0
    /\ result = Unset

\* truncateResponse is not called
TruncateIdle == text = "" /\ limit = 0 /\ truncated = <<>>

\* no log stream is open
LogsIdle == stream = <<>> /\ emitted = 0 /\ buffer = <<>> /\ delivered = <<>>

\* no simulator is looked at
SimIdle ==
    /\ devices = <<>>
    /\ idbInstalled = FALSE
    /\ params = Unset
    /\ commands = <<>>
    /\ target = Unset

Init == AuditIdle /\ TruncateIdle /\ LogsIdle /\ SimIdle

\* the request a handler makes before its first await
FirstEndpoint(t) ==
    CASE t = TouchTool -> TouchEP
      [] t = ContrastTool -> ContrastEP
      [] t = LayoutTool -> LayoutEP
      [] t = AccessibilityTool -> InteractiveEP
      [] t = AllTool -> TouchEP

\* faulty variant: the request is issued a second time
Await_twice(endpoint) ==
    /\ pc' = endpoint
    /\ inflight' = {endpoint}
    /\ requests' = requests \o <<endpoint, endpoint>>

\* the handler makes a request and suspends until it completes
Await(endpoint) ==
    /\ pc' = endpoint
    /\ inflight' = {endpoint}
    /\ requests' = Append(requests, endpoint)

\* the handler returns r
Return(r) ==
    /\ pc' = "done"
    /\ inflight' = {}
    /\ result' = r
    /\ UNCHANGED requests

\* the markdown formatter of a single-category tool runs: the request
\* succeeded, the format is markdown and the data is an array
Formats(response, fmt) ==
    response.success /\ fmt = MARKDOWN /\ "data" \in DOMAIN response

\* A tool is called: the handler runs up to its first await.
Invoke(t, fmt) ==
    /\ UNCHANGED <<truncateVars, logVars, simVars>>
    /\ pc \in {"idle", "done"}
    /\ tool' = t
    /\ format' = fmt
    /\ pc' = FirstEndpoint(t)
    /\ inflight' = {FirstEndpoint(t)}
    /\ requests' = <<FirstEndpoint(t)>>
    /\ touchResponse' = Unset
    /\ contrastResponse' = Unset
    /\ layoutResponse' = Unset
    /\ interactiveResponse' = Unset
    /\ results' = <<>>
    /\ lines' = IF t = AllTool THEN << "# Full UI/UX Audit Report\n" >> ELSE <<>>
    /\ issues' = <<>>
    /\ totalIssues' = 0
    /\ result' = Unset

\* ios_audit_touch_targets: the request completes and the handler returns
TouchTargetsDone ==
    /\ UNCHANGED <<truncateVars, logVars, simVars>>
    /\ tool = TouchTool /\ pc = TouchEP /\ TouchEP \in inflight
    /\ \E o \in FetchOutcomes(tool, TouchEP) :
          /\ touchResponse' = request(o)
          /\ lines' = IF Formats(request(o), format)
                      THEN touchTargetAuditLines(request(o).data) ELSE <<>>
          /\ Return(ios_audit_touch_targets(request(o), format))
    /\ UNCHANGED <<tool, format, contrastResponse, layoutResponse,
                   interactiveResponse, results, issues, totalIssues>>

\* ios_audit_contrast: the request completes and the handler returns
ContrastDone ==
    /\ UNCHANGED <<truncateVars, logVars, simVars>>
    /\ tool = ContrastTool /\ pc = ContrastEP /\ ContrastEP \in inflight
    /\ \E o \in FetchOutcomes(tool, ContrastEP) :
          /\ contrastResponse' = request(o)
          /\ lines' = IF Formats(request(o), format)
                      THEN contrastAuditLines(request(o).data) ELSE <<>>
          /\ Return(ios_audit_contrast(request(o), format))
    /\ UNCHANGED <<tool, format, touchResponse, layoutResponse,
                   interactiveResponse, results, issues, totalIssues>>

\* ios_audit_layout: the request completes and the handler returns
LayoutDone ==
    /\ UNCHANGED <<truncateVars, logVars, simVars>>
    /\ tool = LayoutTool /\ pc = LayoutEP /\ LayoutEP \in inflight
    /\ \E o \in FetchOutcomes(tool, LayoutEP) :
          /\ layoutResponse' = request(o)
          /\ Return(ios_audit_layout(request(o), format))
    /\ UNCHANGED <<tool, format, touchResponse, contrastResponse,
                   interactiveResponse, results, lines, issues, totalIssues>>

\* faulty variant: a failed interactive-elements request is not thrown
interactiveThrows_never(interactiveResponse_) == FALSE

\* if (!interactiveResponse.success) throw new Error(interactiveResponse.error)
interactiveThrows(interactiveResponse_) == ~interactiveResponse_.success

\* ios_audit_accessibility: the interactive-elements request completes; the
\* handler throws on failure and otherwise requests the touch targets
AccessibilityInteractiveDone ==
    /\ UNCHANGED <<truncateVars, logVars, simVars>>
    /\ tool = AccessibilityTool /\ pc = InteractiveEP
    /\ InteractiveEP \in inflight
    /\ \E o \in FetchOutcomes(tool, InteractiveEP) :
          /\ interactiveResponse' = request(o)
          /\ IF interactiveThrows(request(o))
             THEN Return(ErrorResult(request(o).error))
             ELSE Await(TouchEP) /\ UNCHANGED result
    /\ UNCHANGED <<tool, format, touchResponse, contrastResponse,
                   layoutResponse, results, lines, issues, totalIssues>>

\* ios_audit_accessibility: the touch-target request completes; the handler
\* builds the issues and returns
AccessibilityTouchDone ==
    /\ UNCHANGED <<truncateVars, logVars, simVars>>
    /\ tool = AccessibilityTool /\ pc = TouchEP /\ TouchEP \in inflight
    /\ \E o \in FetchOutcomes(tool, TouchEP) :
          /\ touchResponse' = request(o)
          /\ issues' = accessibilityIssues(DataOrEmpty(interactiveResponse),
                                           touchTargetsOf(request(o)))
          /\ lines' = IF format = MARKDOWN /\ Len(issues') > 0
                      THEN accessibilityLines(issues') ELSE <<>>
          /\ Return(ios_audit_accessibility(interactiveResponse, request(o),
                                            format))
    /\ UNCHANGED <<tool, format, contrastResponse, layoutResponse,
                   interactiveResponse, results, totalIssues>>

\* ios_audit_all: the locals after a section; a section that throws ends in
\* the handler's catch block, any other goes on to the next request
AllContinue(st, next) ==
    IF "thrown" \in DOMAIN st
    THEN Return(ErrorResult(st.thrown)) /\ UNCHANGED <<results, lines>>
    ELSE /\ results' = st.results
         /\ lines' = st.lines
         /\ Await(next)
         /\ UNCHANGED result

AllTouchDone ==
    /\ UNCHANGED <<truncateVars, logVars, simVars>>
    /\ tool = AllTool /\ pc = TouchEP /\ TouchEP \in inflight
    /\ \E o \in FetchOutcomes(tool, TouchEP) :
          /\ touchResponse' = request(o)
          /\ AllContinue(allTouchTargets(request(o),
                            [results |-> results, lines |-> lines]),
                         ContrastEP)
    /\ UNCHANGED <<tool, format, contrastResponse, layoutResponse,
                   interactiveResponse, issues, totalIssues>>

AllContrastDone ==
    /\ UNCHANGED <<truncateVars, logVars, simVars>>
    /\ tool = AllTool /\ pc = ContrastEP /\ ContrastEP \in inflight
    /\ \E o \in FetchOutcomes(tool, ContrastEP) :
          /\ contrastResponse' = request(o)
          /\ AllContinue(allContrast(request(o),
                            [results |-> results, lines |-> lines]),
                         LayoutEP)
    /\ UNCHANGED <<tool, format, touchResponse, layoutResponse,
                   interactiveResponse, issues, totalIssues>>

AllLayoutDone ==
    /\ UNCHANGED <<truncateVars, logVars, simVars>>
    /\ tool = AllTool /\ pc = LayoutEP /\ LayoutEP \in inflight
    /\ \E o \in FetchOutcomes(tool, LayoutEP) :
          /\ layoutResponse' = request(o)
          /\ AllContinue(allLayout(request(o),
                            [results |-> results, lines |-> lines]),
                         InteractiveEP)
    /\ UNCHANGED <<tool, format, touchResponse, contrastResponse,
                   interactiveResponse, issues, totalIssues>>

\* ios_audit_all: the last request completes; the handler adds the
\* accessibility section and the summary and returns
AllInteractiveDone ==
    /\ UNCHANGED <<truncateVars, logVars, simVars>>
    /\ tool = AllTool /\ pc = InteractiveEP /\ InteractiveEP \in inflight
    /\ \E o \in FetchOutcomes(tool, InteractiveEP) :
          /\ interactiveResponse' = request(o)
          /\ LET st == allAccessibility(request(o),
                          [results |-> results, lines |-> lines])
             IN IF "thrown" \in DOMAIN st
                THEN /\ Return(ErrorResult(st.thrown))
                     /\ UNCHANGED <<results, lines, totalIssues>>
                ELSE LET total == totalIssuesOf(st.results)
                         all == st.lines \o summaryLines(total)
                     IN /\ results' = st.results
                        /\ totalIssues' = total
                        /\ lines' = all
                        /\ Return(allResult(st.results, all, format))
    /\ UNCHANGED <<tool, format, touchResponse, contrastResponse,
                   layoutResponse, issues>>

Next ==
    \/ \E t \in Tools, fmt \in ResponseFormat : Invoke(t, fmt)
    \/ TouchTargetsDone
    \/ ContrastDone
    \/ LayoutDone
    \/ AccessibilityInteractiveDone
    \/ AccessibilityTouchDone
    \/ AllTouchDone
    \/ AllContrastDone
    \/ AllLayoutDone
    \/ AllInteractiveDone

Spec == Init /\ [][Next]_vars

TypeOK ==
    /\ tool \in Tools \cup {"none"}
    /\ format \in ResponseFormat \cup {"none"}
    /\ pc \in {"idle", "done", TouchEP, ContrastEP, LayoutEP, InteractiveEP}
    /\ Cardinality(inflight) <= 1

\* ================================================================== claims
\* the i-th smallest member of a set of indices
Nth(S, i) == CHOOSE n \in S : Cardinality({ m \in S : m <= n }) = i

Received(response) == response # Unset
Succeeded(response) == Received(response) /\ response.success
Failed(response) == Received(response) /\ ~response.success

Categories == {"touchTargets", "contrast", "layout", "accessibility"}

ResponseOf(category) ==
    CASE category = "touchTargets" -> touchResponse
      [] category = "contrast" -> contrastResponse
      [] category = "layout" -> layoutResponse
      [] category = "accessibility" -> interactiveResponse

HeadingOf(category) ==
    CASE category = "touchTargets" -> "## Touch Targets"
      [] category = "contrast" -> "## Color Contrast"
      [] category = "layout" -> "## Auto Layout"
      [] category = "accessibility" -> "## Accessibility"

\* the issue count of a category, counted on the telemetry it received
IssueCount(category) ==
    LET data == DataOrEmpty(ResponseOf(category))
    IN CASE category = "touchTargets" ->
              Cardinality({ i \in DOMAIN data : ~data[i].meetsMinimum })
         [] category = "contrast" ->
              Cardinality({ i \in DOMAIN data : ~data[i].meetsWCAG_AA })
         [] category = "layout" -> Len(data)
         [] category = "accessibility" ->
              Cardinality({ i \in DOMAIN data :
                  "label" \notin DOMAIN data[i] \/ data[i].label = "" })

AvailableCount(category) ==
    IF Succeeded(ResponseOf(category)) THEN IssueCount(category) ELSE 0

AllDone == tool = AllTool /\ pc = "done"

AllFourFailed == \A c \in Categories : Failed(ResponseOf(c))

\* C1: when ios_audit_all returns, the total issue count is the sum of the
\* issue counts of the categories whose request succeeded; a failed category
\* contributes zero.
C1_TotalIsSumOfAvailable ==
    AllDone =>
        totalIssues = AvailableCount("touchTargets") + AvailableCount("contrast")
                      + AvailableCount("layout") + AvailableCount("accessibility")

\* C2: when ios_audit_all returns, every category whose request failed is
\* present in the report: as a key of the JSON object in structured mode, as
\* a section of the text in markdown mode.
C2_FailedCategoryRecorded ==
    AllDone =>
        \A c \in Categories :
            Failed(ResponseOf(c)) =>
                IF format = JSON THEN c \in DOMAIN results
                ELSE \E i \in DOMAIN lines : lines[i] = HeadingOf(c)

\* C3: ios_audit_all never returns an error result, whichever requests
\* failed; when all four failed the total is 0 and the text reports it.
C3_AllNeverFails ==
    AllDone =>
        /\ ~IsError(result)
        /\ AllFourFailed =>
              /\ totalIssues = 0
              /\ \E i \in DOMAIN lines : lines[i] = "**Total Issues Found:** 0"
              /\ format = MARKDOWN =>
                    TextOf(result) =
                        "# Full UI/UX Audit Report\n\n---\n**Total Issues Found:** 0\n\n*Run individual audits for detailed information.*"
              /\ format = JSON => TextOf(result) = "{}"

C3_Witness ==
    AllDone /\ AllFourFailed /\ ~IsError(result) /\ format = MARKDOWN

\* the counts ios_audit_all reports for a category, from its telemetry alone
ExpectedResult(category) ==
    LET total == Len(DataOrEmpty(ResponseOf(category)))
    IN CASE category = "touchTargets" ->
              [total |-> total, failing |-> IssueCount(category)]
         [] category = "contrast" ->
              [total |-> total, failing |-> IssueCount(category)]
         [] category = "layout" -> [issues |-> IssueCount(category)]
         [] category = "accessibility" ->
              [total |-> total, missingLabels |-> IssueCount(category)]

\* the summary line of a category, from its issue count alone
ExpectedSummary(category) ==
    LET n == IssueCount(category)
    IN CASE category = "touchTargets" ->
              IF n = 0 THEN "[ok] All touch targets meet minimum size"
              ELSE "[warn] " \o ToString(n) \o " elements below 44x44pt"
         [] category = "contrast" ->
              IF n = 0 THEN "[ok] All text meets WCAG AA contrast"
              ELSE "[warn] " \o ToString(n) \o " elements fail WCAG AA"
         [] category = "layout" ->
              IF n = 0 THEN "[ok] No layout issues"
              ELSE "[warn] " \o ToString(n) \o " layout issues detected"
         [] category = "accessibility" ->
              IF n = 0 THEN "[ok] All interactive elements have labels"
              ELSE "[warn] " \o ToString(n)
                   \o " elements missing accessibility labels"

\* C4: when ios_audit_all returns, all four requests were made, and every
\* category whose own request succeeded has the counts and the section that
\* its own telemetry determines, whatever happened to the other categories.
C4_CategoriesIndependent ==
    AllDone =>
        /\ requests = <<TouchEP, ContrastEP, LayoutEP, InteractiveEP>>
        /\ \A c \in Categories :
              Succeeded(ResponseOf(c)) =>
                  /\ c \in DOMAIN results
                  /\ results[c] = ExpectedResult(c)
                  /\ \E i \in 1..(Len(lines) - 2) :
                        /\ lines[i] = HeadingOf(c)
                        /\ lines[i + 1] = ExpectedSummary(c)
                        /\ lines[i + 2] = ""

C4_Witness ==
    /\ AllDone
    /\ Failed(touchResponse)
    /\ Succeeded(contrastResponse) /\ IssueCount("contrast") > 0
    /\ Failed(layoutResponse)
    /\ Succeeded(interactiveResponse) /\ IssueCount("accessibility") > 0

\* the response of the single request of a single-category tool
SingleResponse ==
    CASE tool = TouchTool -> touchResponse
      [] tool = ContrastTool -> contrastResponse
      [] tool = LayoutTool -> layoutResponse
      [] OTHER -> Unset

SingleDone == tool \in {TouchTool, ContrastTool, LayoutTool} /\ pc = "done"

\* C5: when a single-category audit tool returns after its request failed,
\* the result is an error whose text is "Error: " and the request's error
\* message, and nothing else, in both output modes.
C5_SingleFailsFast ==
    (SingleDone /\ Failed(SingleResponse)) =>
        /\ IsError(result)
        /\ TextOf(result) = "Error: " \o SingleResponse.error

C5_Witness ==
    /\ SingleDone /\ tool = ContrastTool /\ format = JSON
    /\ Failed(SingleResponse)
    /\ TextOf(result) = "Error: HTTP 500: Internal Server Error"

\* ios_audit_accessibility has returned from the end of its handler
AccessibilityDone ==
    tool = AccessibilityTool /\ pc = "done" /\ Received(touchResponse)

\* the interactive elements ios_audit_accessibility received
ElementsReceived == DataOrEmpty(interactiveResponse)

\* the touch targets ios_audit_accessibility received
TouchTargetsReceived ==
    IF Succeeded(touchResponse) THEN DataOrEmpty(touchResponse) ELSE <<>>

\* positions of the elements with no label or an empty one, UIView aside
Unlabelled ==
    { i \in DOMAIN ElementsReceived :
        /\ "label" \notin DOMAIN ElementsReceived[i]
           \/ ElementsReceived[i].label = ""
        /\ ElementsReceived[i].type # "UIView" }

\* positions of the touch targets with meetsMinimum = false
Undersized ==
    { i \in DOMAIN TouchTargetsReceived :
        TouchTargetsReceived[i].meetsMinimum = FALSE }

HighIssues == SelectSeq(issues, LAMBDA f : f.severity = "high")
MediumIssues == SelectSeq(issues, LAMBDA f : f.severity = "medium")

\* C6: the high findings of ios_audit_accessibility are, one for one, the
\* elements with an absent or empty label whose type is not UIView, each
\* with the element's viewId and type and "Missing accessibility label".
C6_HighAreUnlabelled ==
    AccessibilityDone =>
        /\ Len(HighIssues) = Cardinality(Unlabelled)
        /\ \A k \in 1..Len(HighIssues) :
              HighIssues[k] =
                  [viewId |-> ElementsReceived[Nth(Unlabelled, k)].viewId,
                   type |-> ElementsReceived[Nth(Unlabelled, k)].type,
                   issue |-> "Missing accessibility label",
                   severity |-> "high"]

C6_Witness ==
    /\ AccessibilityDone
    /\ Len(ElementsReceived) = 2
    /\ ElementsReceived[1].type = "UIView"
    /\ "label" \notin DOMAIN ElementsReceived[1]
    /\ ElementsReceived[2].type = "UIButton"
    /\ "label" \in DOMAIN ElementsReceived[2] /\ ElementsReceived[2].label = ""
    /\ Len(HighIssues) = 1

\* C7: the medium findings of ios_audit_accessibility are, one for one, the
\* touch targets with meetsMinimum = false, each of type touch_target with a
\* message made of the target's width and height and the 44x44 minimum.
C7_MediumAreUndersized ==
    AccessibilityDone =>
        /\ Len(MediumIssues) = Cardinality(Undersized)
        /\ \A k \in 1..Len(MediumIssues) :
              LET tt == TouchTargetsReceived[Nth(Undersized, k)]
              IN MediumIssues[k] =
                    [viewId |-> tt.viewId,
                     type |-> "touch_target",
                     issue |-> "Touch target too small: "
                               \o ToString(tt.frame.width) \o "x"
                               \o ToString(tt.frame.height)
                               \o "pt (minimum 44x44pt)",
                     severity |-> "medium"]

C7_Witness ==
    /\ AccessibilityDone
    /\ Len(TouchTargetsReceived) = 2
    /\ TouchTargetsReceived[1].meetsMinimum
    /\ ~TouchTargetsReceived[2].meetsMinimum
    /\ TouchTargetsReceived[2].frame.width = 50
    /\ TouchTargetsReceived[2].frame.height = 20
    /\ Len(MediumIssues) = 1
    /\ MediumIssues[1].issue = "Touch target too small: 50x20pt (minimum 44x44pt)"

\* C8: the issues array of ios_audit_accessibility is the high findings in
\* element order followed by the medium findings in touch-target order, and
\* has as many entries as there are unlabelled non-container elements and
\* undersized touch targets together.
C8_HighBeforeMedium ==
    AccessibilityDone =>
        LET h == Cardinality(Unlabelled)
            m == Cardinality(Undersized)
        IN /\ Len(issues) = h + m
           /\ \A k \in 1..h :
                 /\ issues[k].severity = "high"
                 /\ issues[k].viewId = ElementsReceived[Nth(Unlabelled, k)].viewId
           /\ \A k \in 1..m :
                 /\ issues[h + k].severity = "medium"
                 /\ issues[h + k].viewId =
                       TouchTargetsReceived[Nth(Undersized, k)].viewId

C8_Witness ==
    /\ AccessibilityDone /\ format = JSON
    /\ Len(ElementsReceived) = 1
    /\ ElementsReceived[1].viewId = "btn1"
    /\ Len(TouchTargetsReceived) = 1
    /\ TouchTargetsReceived[1].viewId = "btn1"
    /\ TouchTargetsReceived[1].frame.width = 30
    /\ Len(issues) = 2
    /\ issues[1].severity = "high" /\ issues[1].viewId = "btn1"
    /\ issues[2].severity = "medium" /\ issues[2].viewId = "btn1"

\* C9: when ios_audit_accessibility returns after its touch-target request
\* failed, its result differs from the result it gives for the same
\* elements and a successful touch-target response with no touch targets.
C9_TouchFailureNotSwallowed ==
    (AccessibilityDone /\ Failed(touchResponse)) =>
        result # ios_audit_accessibility(interactiveResponse,
                                         [success |-> TRUE, data |-> <<>>],
                                         format)

LayoutToolDone == tool = LayoutTool /\ pc = "done"

\* C10: ios_audit_layout answers a successful response with an empty list
\* by a non-error result (the empty JSON array in structured mode, the "no
\* issues" line in markdown mode) and a failed response by an error result
\* whose text is neither of these.
C10_EmptyIsNotUnavailable ==
    LayoutToolDone =>
        /\ (Succeeded(layoutResponse) /\ "data" \in DOMAIN layoutResponse
              /\ layoutResponse.data = <<>>) =>
                 /\ ~IsError(result)
                 /\ TextOf(result) =
                       IF format = JSON THEN "[]"
                       ELSE "[ok] No Auto Layout issues detected."
        /\ Failed(layoutResponse) =>
                 /\ IsError(result)
                 /\ TextOf(result)
                       \notin {"[]", "[ok] No Auto Layout issues detected."}

C10_Witness ==
    /\ LayoutToolDone /\ format = JSON
    /\ Succeeded(layoutResponse) /\ "data" \in DOMAIN layoutResponse
    /\ layoutResponse.data = <<>>
    /\ TextOf(result) = "[]"

\* a response that reports success and carries no data
Malformed(response) == Succeeded(response) /\ "data" \notin DOMAIN response

\* what ios_audit_all records for a category audited on no element
ZeroCounts(category) ==
    IF category = "layout" THEN [issues |-> 0]
    ELSE IF category = "accessibility" THEN [total |-> 0, missingLabels |-> 0]
    ELSE [total |-> 0, failing |-> 0]

\* C11: a response that reports success without data is treated as category
\* unavailable: a single-category audit and ios_audit_accessibility return
\* an error result, and ios_audit_all does not record the category as
\* audited with zero elements and zero issues.
C11_MalformedIsUnavailable ==
    /\ (SingleDone /\ Malformed(SingleResponse)) => IsError(result)
    /\ (AccessibilityDone
          /\ (Malformed(interactiveResponse) \/ Malformed(touchResponse)))
       => IsError(result)
    /\ AllDone =>
          \A c \in Categories :
              Malformed(ResponseOf(c)) =>
                  ~(c \in DOMAIN results /\ results[c] = ZeroCounts(c))

TouchToolDone == tool = TouchTool /\ pc = "done"

\* touch targets with meetsMinimum decided by the frame and the 44pt minimum
Reclassified(audit) ==
    [i \in DOMAIN audit |->
        [audit[i] EXCEPT !.meetsMinimum =
            /\ audit[i].frame.width >= MIN_TOUCH_TARGET_SIZE
            /\ audit[i].frame.height >= MIN_TOUCH_TARGET_SIZE]]

\* C12: the touch-target audit reports every finding with meetsMinimum true
\* exactly when its width and height are both at least 44: its result is the
\* one it gives for the same findings classified by their frames.
C12_MeetsMinimumFromFrame ==
    (TouchToolDone /\ Succeeded(touchResponse)
       /\ "data" \in DOMAIN touchResponse) =>
        result = ios_audit_touch_targets(
                     [success |-> TRUE,
                      data |-> Reclassified(touchResponse.data)], format)

ContrastToolDone == tool = ContrastTool /\ pc = "done"

\* text of 18pt or more is large (the weight of the font is not in the data)
LargeText(sample) == "fontSize" \in DOMAIN sample /\ sample.fontSize >= 18

\* C13: every sample the contrast audit reports has meetsWCAG_AA and
\* meetsWCAG_AAA decided by its ratio: 4.5 and 7.0 for normal text and for
\* samples without fontSize, 3.0 and 4.5 for large text.
C13_ContrastFromRatio ==
    (ContrastToolDone /\ Succeeded(contrastResponse)
       /\ "data" \in DOMAIN contrastResponse) =>
        \A i \in DOMAIN contrastResponse.data :
            LET sample == contrastResponse.data[i]
            IN /\ sample.meetsWCAG_AA <=>
                    sample.contrastRatio >=
                        (IF LargeText(sample) THEN WCAG_AA_CONTRAST_LARGE
                         ELSE WCAG_AA_CONTRAST_NORMAL)
               /\ sample.meetsWCAG_AAA <=>
                    sample.contrastRatio >=
                        (IF LargeText(sample) THEN WCAG_AAA_CONTRAST_LARGE
                         ELSE WCAG_AAA_CONTRAST_NORMAL)

\* C14: every finding the touch-target audit reports has touchableArea equal
\* to width times height, a frame with a zero or negative dimension is
\* reported as failing, and the audit returns no error.
C14_AreaIsWidthTimesHeight ==
    (TouchToolDone /\ Succeeded(touchResponse)
       /\ "data" \in DOMAIN touchResponse) =>
        /\ ~IsError(result)
        /\ \A i \in DOMAIN touchResponse.data :
              LET finding == touchResponse.data[i]
              IN /\ finding.touchableArea =
                        finding.frame.width * finding.frame.height
                 /\ (finding.frame.width <= 0 \/ finding.frame.height <= 0)
                        => ~finding.meetsMinimum


\* ------------------------------------------------------ rendered reports
\* the lines of a report that open an item block
Headings(report) ==
    SelectSeq(report, LAMBDA l : Len(l) >= 4 /\ SubSeq(l, 1, 4) = "### ")

\* the touch-target tool has rendered its markdown report
TouchReportDone == TouchToolDone /\ Formats(touchResponse, format)

\* the name a touch-target finding is listed under
TouchLabel(item) ==
    IF "accessibilityLabel" \in DOMAIN item /\ item.accessibilityLabel # ""
    THEN item.accessibilityLabel ELSE item.viewId

\* C15: the rendered touch-target report has one item block per failing
\* finding and none for a passing one, the blocks in the order of the input,
\* and its summary line gives a passing and a failing count that add up to
\* the number of findings received.
C15_TouchReportBlocks ==
    TouchReportDone =>
        LET audit == touchResponse.data
            failing == SelectSeq(audit, LAMBDA a : ~a.meetsMinimum)
        IN /\ result = TextResult(join(lines, "\n"))
           /\ Headings(lines) =
                  [i \in 1..Len(failing) |-> "### " \o TouchLabel(failing[i])]
           /\ \E p \in 0..Len(audit) :
                  /\ p + Len(failing) = Len(audit)
                  /\ lines[Len(lines)] =
                        "\n**Summary:** " \o NumberText(p) \o " passing, "
                        \o NumberText(Len(failing)) \o " failing"

\* a report over a passing finding followed by a failing one
C15_Witness ==
    /\ TouchReportDone
    /\ Len(touchResponse.data) = 2
    /\ touchResponse.data[1].meetsMinimum
    /\ ~touchResponse.data[2].meetsMinimum
    /\ Len(Headings(lines)) = 1


\* the contrast tool has rendered its markdown report
ContrastReportDone == ContrastToolDone /\ Formats(contrastResponse, format)

StartsWith(l, prefix) ==
    Len(l) >= Len(prefix) /\ SubSeq(l, 1, Len(prefix)) = prefix

\* the positions of the lines of a report that start with a prefix
Positions(report, prefix) == {i \in DOMAIN report : StartsWith(report[i], prefix)}

\* the one-line entries of a report: bullets that are not a detail of a block
Bullets(report) ==
    SelectSeq(report, LAMBDA l : StartsWith(l, "- ") /\ ~StartsWith(l, "- **"))

\* the name a contrast sample is listed under: its quoted text, else its id
ContrastName(item) ==
    IF "text" \in DOMAIN item /\ item.text # "" THEN "\"" \o item.text
    ELSE item.viewId

FailingHeading == "## [fail] Failing WCAG AA"
AaOnlyHeading == "## [ok] Passing AA (not AAA)"

\* C16: the rendered contrast report lists the samples failing AA first, as
\* blocks under the Failing AA heading, then the samples passing AA but not
\* AAA as one-line entries under their heading, then a last summary line with
\* the counts of AAA, AA-only and failing samples; each group is in input
\* order and a group's heading is there exactly when the group is non-empty.
C16_ContrastReportGroups ==
    ContrastReportDone =>
        LET samples == contrastResponse.data
            failing == SelectSeq(samples, LAMBDA r : ~r.meetsWCAG_AA)
            aaOnly == SelectSeq(samples,
                                LAMBDA r : r.meetsWCAG_AA /\ ~r.meetsWCAG_AAA)
            aaa == SelectSeq(samples, LAMBDA r : r.meetsWCAG_AAA)
            blocks == Headings(lines)
            entries == Bullets(lines)
        IN /\ result = TextResult(join(lines, "\n"))
           /\ Len(blocks) = Len(failing)
           /\ \A i \in 1..Len(failing) :
                  StartsWith(blocks[i], "### " \o ContrastName(failing[i]))
           /\ Len(entries) = Len(aaOnly)
           /\ \A i \in 1..Len(aaOnly) :
                  StartsWith(entries[i], "- " \o ContrastName(aaOnly[i]))
           /\ Cardinality(Positions(lines, FailingHeading)) =
                  IF Len(failing) > 0 THEN 1 ELSE 0
           /\ Cardinality(Positions(lines, AaOnlyHeading)) =
                  IF Len(aaOnly) > 0 THEN 1 ELSE 0
           /\ \A h \in Positions(lines, FailingHeading),
                 b \in Positions(lines, "### ") : h < b
           /\ \A b \in Positions(lines, "### ") \cup Positions(lines, FailingHeading),
                 h \in Positions(lines, AaOnlyHeading) : b < h
           /\ \A h \in Positions(lines, AaOnlyHeading), i \in DOMAIN lines :
                  (StartsWith(lines[i], "- ") /\ ~StartsWith(lines[i], "- **"))
                      => h < i /\ i < Len(lines)
           /\ lines[Len(lines)] =
                  "\n**Summary:** " \o NumberText(Len(aaa)) \o " AAA, "
                  \o NumberText(Len(aaOnly)) \o " AA only, "
                  \o NumberText(Len(failing)) \o " failing"

\* a report over a sample passing AA only followed by a failing one
C16_Witness ==
    /\ ContrastReportDone
    /\ Len(contrastResponse.data) = 2
    /\ contrastResponse.data[1].meetsWCAG_AA
    /\ ~contrastResponse.data[1].meetsWCAG_AAA
    /\ ~contrastResponse.data[2].meetsWCAG_AA
    /\ Len(Headings(lines)) = 1
    /\ Len(Bullets(lines)) = 1


\* ios_audit_accessibility has returned in markdown mode
AccessibilityReportDone == AccessibilityDone /\ format = MARKDOWN

\* the entry of a finding in the accessibility report
IssueEntry(issue) ==
    "- **" \o issue.type \o "** (" \o issue.viewId \o "): " \o issue.issue

HighHeading == "## [fail] High Severity"
MediumHeading == "## [warn] Medium Severity"

\* C17: the rendered accessibility report lists the high findings, in the
\* order they were found, before the medium findings, in the order they were
\* found, and ends with a total that is the number of findings and the sum of
\* the high and the medium counts; with no finding the report is the single
\* "no issues" line.
C17_AccessibilityReportGroups ==
    AccessibilityReportDone =>
        IF Len(issues) = 0
        THEN result = TextResult(NoAccessibilityIssuesText) /\ lines = <<>>
        ELSE LET entries == SelectSeq(lines, LAMBDA l : StartsWith(l, "- **"))
             IN /\ result = TextResult(join(lines, "\n"))
                /\ entries =
                      [i \in 1..Len(HighIssues) |-> IssueEntry(HighIssues[i])]
                      \o [i \in 1..Len(MediumIssues) |-> IssueEntry(MediumIssues[i])]
                /\ \A h \in Positions(lines, HighHeading),
                      m \in Positions(lines, MediumHeading) : h < m
                /\ \A m \in Positions(lines, MediumHeading) :
                      Cardinality({i \in Positions(lines, "- **") : i < m})
                          = Len(HighIssues)
                /\ Cardinality(Positions(lines, HighHeading)) =
                      IF Len(HighIssues) > 0 THEN 1 ELSE 0
                /\ Cardinality(Positions(lines, MediumHeading)) =
                      IF Len(MediumIssues) > 0 THEN 1 ELSE 0
                /\ Len(issues) = Len(HighIssues) + Len(MediumIssues)
                /\ lines[Len(lines)] =
                      "\n**Total Issues:** " \o NumberText(Len(issues)) \o " ("
                      \o NumberText(Len(HighIssues)) \o " high, "
                      \o NumberText(Len(MediumIssues)) \o " medium)"

\* a report with two high findings and one medium finding
C17_Witness ==
    /\ AccessibilityReportDone
    /\ Len(HighIssues) = 2
    /\ Len(MediumIssues) >= 1
    /\ Len(lines) > 0

\* the report of an audit that found nothing
C17_EmptyWitness ==
    /\ AccessibilityReportDone
    /\ Succeeded(touchResponse)
    /\ Len(issues) = 0


\* the pass line of a category's section
PassLine(category) ==
    CASE category = "touchTargets" -> "[ok] All touch targets meet minimum size"
      [] category = "contrast" -> "[ok] All text meets WCAG AA contrast"
      [] category = "layout" -> "[ok] No layout issues"
      [] category = "accessibility" -> "[ok] All interactive elements have labels"

\* the key of results[category] that holds the category's issue count
CountKey(category) ==
    CASE category = "touchTargets" -> "failing"
      [] category = "contrast" -> "failing"
      [] category = "layout" -> "issues"
      [] category = "accessibility" -> "missingLabels"

ClassifierFindings ==
    accessibilityIssues(DataOrEmpty(interactiveResponse),
                        touchTargetsOf(touchResponse))

\* C20: when ios_audit_all returns with its interactive-elements request
\* succeeded, the accessibility issue count it reports is the number of
\* findings ios_audit_accessibility produces from the same telemetry:
\* unlabelled elements of type UIView are not counted and touch targets
\* below the minimum are.
C20_AllCountsAsClassifier ==
    (AllDone /\ Succeeded(interactiveResponse)) =>
        /\ "accessibility" \in DOMAIN results
        /\ results["accessibility"].missingLabels = Len(ClassifierFindings)


\* ------------------------------------------------------------- requests
AllEndpoints == {TouchEP, ContrastEP, LayoutEP, InteractiveEP}

\* the endpoints requested so far by the running invocation
Requested == {requests[i] : i \in DOMAIN requests}

\* C21: ios_audit_all does not wait for one category's request to complete
\* before it starts the others: whenever its handler is suspended on a
\* request, the requests of all four categories have been started.
C21_AllRequestsStartedTogether ==
    (tool = AllTool /\ inflight # {}) => Requested = AllEndpoints

\* C22: no retries: within one invocation no endpoint is requested twice,
\* whatever the outcome of its request, and an ios_audit_all that returned
\* made exactly one request for each of the four categories.
C22_NoRetries ==
    /\ \A i, j \in DOMAIN requests : requests[i] = requests[j] => i = j
    /\ (tool \in {TouchTool, ContrastTool, LayoutTool} /\ pc # "idle") =>
           requests = <<FirstEndpoint(tool)>>
    /\ AllDone =>
           /\ Len(requests) = 4
           /\ Requested = AllEndpoints

\* a full audit that returned after its first and its third request failed
C22_Witness ==
    /\ AllDone
    /\ Failed(touchResponse) /\ Failed(layoutResponse)
    /\ Len(requests) = 4

\* C23: in ios_audit_accessibility the interactive-elements request is the
\* first request; touch targets are requested only after it succeeded; when
\* it failed the tool returns the error without a touch-target request and
\* without a finding.
C23_InteractiveBeforeTouch ==
    (tool = AccessibilityTool /\ pc # "idle") =>
        /\ requests[1] = InteractiveEP
        /\ TouchEP \in Requested =>
              /\ Succeeded(interactiveResponse)
              /\ requests = <<InteractiveEP, TouchEP>>
        /\ Failed(interactiveResponse) =>
              /\ pc = "done"
              /\ requests = <<InteractiveEP>>
              /\ ~Received(touchResponse)
              /\ IsError(result)
              /\ TextOf(result) = "Error: " \o interactiveResponse.error
              /\ issues = <<>>

\* the tool returned the error of its interactive-elements request
C23_Witness ==
    /\ tool = AccessibilityTool /\ pc = "done"
    /\ Failed(interactiveResponse)
    /\ IsError(result)

\* the responses the running invocation has received, with the endpoint of each
ReceivedResponses ==
    { rr \in { <<TouchEP, touchResponse>>, <<ContrastEP, contrastResponse>>,
               <<LayoutEP, layoutResponse>>,
               <<InteractiveEP, interactiveResponse>> } : Received(rr[2]) }

\* C24: every response of DebugServerClient.request is either a success
\* without error or a failure with a non-empty error and no data; a non-OK
\* status gives a failure whose error starts with "HTTP <status>"; a fetch
\* that throws or a body that does not parse gives a failure whose error
\* starts with "Failed to connect to debug server".
C24_RequestNeverRejects ==
    \A rr \in ReceivedResponses :
        LET response == rr[2]
        IN /\ "success" \in DOMAIN response
           /\ response.success => "error" \notin DOMAIN response
           /\ ~response.success =>
                 /\ "data" \notin DOMAIN response
                 /\ "error" \in DOMAIN response /\ Len(response.error) > 0
           /\ \A o \in FetchOutcomes(tool, rr[1]) :
                 response = request(o) =>
                     /\ ("threw" \notin DOMAIN o /\ ~o.ok) =>
                           /\ ~response.success
                           /\ StartsWith(response.error,
                                         "HTTP " \o ToString(o.status))
                     /\ "threw" \in DOMAIN o =>
                           /\ ~response.success
                           /\ StartsWith(response.error,
                                         "Failed to connect to debug server")
                     /\ ("threw" \notin DOMAIN o /\ o.ok) => response.success

\* a tool has received the failure of a body that did not parse
C24_Witness ==
    \E rr \in ReceivedResponses :
        /\ Failed(rr[2])
        /\ rr[2] = request([ok |-> TRUE, threw |-> "Unexpected end of JSON input"])

\* a tool has received the failure of a non-OK status
C24_StatusWitness ==
    \E rr \in ReceivedResponses :
        /\ Failed(rr[2])
        /\ StartsWith(rr[2].error, "HTTP 500")

\* C25: in the contrast report the counts of the summary line (AAA, AA only,
\* failing) add up to the number of samples received, whatever the values
\* of meetsWCAG_AA and meetsWCAG_AAA.
C25_ContrastCountsSum ==
    ContrastReportDone =>
        LET n == Len(contrastResponse.data)
        IN \E a, o, f \in 0..n :
              /\ a + o + f = n
              /\ lines[Len(lines)] =
                    "\n**Summary:** " \o NumberText(a) \o " AAA, "
                    \o NumberText(o) \o " AA only, "
                    \o NumberText(f) \o " failing"


\* ======================================================= truncateResponse
RECURSIVE Filler(_)
\* a text of n characters
Filler(n) ==
    IF n = 0 THEN ""
    ELSE IF n % 2 = 0 THEN Filler(n \div 2) \o Filler(n \div 2)
    ELSE Filler(n - 1) \o "a"

Texts == {Filler(n) : n \in 0..MaxText}

\* limits below, at and above the 100 characters truncateResponse reserves
Limits == {0, 60, 99, 100, 110}

TruncateInit ==
    /\ AuditIdle /\ LogsIdle /\ SimIdle
    /\ text \in Texts
    /\ limit \in Limits
    /\ truncated = <<>>

\* truncateResponse(text, limit)
TruncateCall ==
    /\ truncated = <<>>
    /\ truncated' = <<truncateResponse(text, limit)>>
    /\ UNCHANGED <<text, limit, auditVars, logVars, simVars>>

\* truncateResponse applied to what it returned, with the same limit
TruncateAgain ==
    /\ Len(truncated) = 1
    /\ truncated' = Append(truncated, truncateResponse(truncated[1], limit))
    /\ UNCHANGED <<text, limit, auditVars, logVars, simVars>>

TruncateNext == TruncateCall \/ TruncateAgain

TruncateSpec == TruncateInit /\ [][TruncateNext]_vars

\* C26: truncateResponse returns the text unchanged when it is not longer
\* than the limit; what it returns is never longer than the limit; applied
\* to its own result with the same limit it returns that result.
C26_TruncateWithinLimit ==
    /\ Len(truncated) >= 1 =>
          /\ Len(text) <= limit => truncated[1] = text
          /\ Len(truncated[1]) <= limit
    /\ Len(truncated) = 2 => truncated[2] = truncated[1]


\* ============================================================= streamLogs
\* Bytes and characters are tokens: an ASCII byte or character is the string
\* of that one character; "C3" and "A9" are the two bytes of the UTF-8
\* encoding of U+00E9; "U+00E9" and "U+FFFD" are those characters.
Chars(str) == [i \in 1..Len(str) |-> SubSeq(str, i, i)]

LeadBytes == {"C3"}
ContinuationBytes == {"A9"}

\* the character a lead byte and a continuation byte encode
TwoByteChar(lead, continuation) == "U+00E9"

RECURSIVE decodeFrom(_, _)
\* data.toString() from byte i on: UTF-8 decoding of this chunk alone; a lead
\* byte without its continuation and a continuation byte without its lead
\* become U+FFFD
decodeFrom(data, i) ==
    IF i > Len(data) THEN <<>>
    ELSE IF data[i] \in LeadBytes
    THEN IF i < Len(data) /\ data[i + 1] \in ContinuationBytes
         THEN <<TwoByteChar(data[i], data[i + 1])>> \o decodeFrom(data, i + 2)
         ELSE <<"U+FFFD">> \o decodeFrom(data, i + 1)
    ELSE IF data[i] \in ContinuationBytes
    THEN <<"U+FFFD">> \o decodeFrom(data, i + 1)
    ELSE <<data[i]>> \o decodeFrom(data, i + 1)

\* data.toString()
toString(data) == decodeFrom(data, 1)

RECURSIVE splitFrom(_, _, _)
\* the pieces of str from character i on, piece being the characters of the
\* current piece read so far
splitFrom(str, i, piece) ==
    IF i > Len(str) THEN <<piece>>
    ELSE IF str[i] = "\n" THEN <<piece>> \o splitFrom(str, i + 1, <<>>)
    ELSE splitFrom(str, i + 1, Append(piece, str[i]))

\* str.split("\n")
split(str) == splitFrom(str, 1, <<>>)

WhiteSpace == {" ", "\t", "\r", "\n"}

\* line.trim() is not the empty string
trimmed(line) == \E i \in DOMAIN line : line[i] \notin WhiteSpace

\* the positions in a member of an object where the key ends: ":" between
\* two quotes
KeyEnds(member) ==
    {k \in 2..(Len(member) - 3) :
        member[k] = "\"" /\ member[k + 1] = ":" /\ member[k + 2] = "\""}

\* a member of an object is "key":"value", neither with a quote or a
\* backslash inside
IsMember(member) ==
    /\ Len(member) >= 5
    /\ member[1] = "\"" /\ member[Len(member)] = "\""
    /\ Cardinality(KeyEnds(member)) = 1
    /\ \A i \in DOMAIN member :
          /\ member[i] # "\\"
          /\ member[i] = "\"" =>
                \/ i \in {1, Len(member)}
                \/ \E k \in KeyEnds(member) : i \in {k, k + 2}

MemberKey(member) ==
    LET k == CHOOSE k \in KeyEnds(member) : TRUE IN SubSeq(member, 2, k - 1)

MemberValue(member) ==
    LET k == CHOOSE k \in KeyEnds(member) : TRUE
    IN SubSeq(member, k + 3, Len(member) - 1)

RECURSIVE membersFrom(_, _, _)
\* the members of the inside of an object, separated by commas
membersFrom(inside, i, member) ==
    IF i > Len(inside) THEN <<member>>
    ELSE IF inside[i] = "," THEN <<member>> \o membersFrom(inside, i + 1, <<>>)
    ELSE membersFrom(inside, i + 1, Append(member, inside[i]))

\* JSON.parse(line) for the lines of LineValues and what decoding makes of
\* them: null, an object of string members without escapes or commas inside,
\* or a SyntaxError
JSONparse(line) ==
    IF line = Chars("null") THEN [null |-> TRUE]
    ELSE IF Len(line) >= 2 /\ line[1] = "{" /\ line[Len(line)] = "}"
    THEN LET inside == SubSeq(line, 2, Len(line) - 1)
             members == IF inside = <<>> THEN <<>>
                        ELSE membersFrom(inside, 1, <<>>)
         IN IF \A i \in DOMAIN members : IsMember(members[i])
            THEN [object |-> [i \in DOMAIN members |->
                                 <<MemberKey(members[i]), MemberValue(members[i])>>]]
            ELSE [threw |-> "SyntaxError"]
    ELSE [threw |-> "SyntaxError"]

\* logEntry[key]: <<value>>, or <<>> for undefined; the last member of a
\* repeated key wins
Property(logEntry, key) ==
    LET at == {i \in DOMAIN logEntry.object : logEntry.object[i][1] = Chars(key)}
    IN IF at = {} THEN <<>>
       ELSE <<logEntry.object[CHOOSE i \in at : \A j \in at : j <= i][2]>>

\* a || b for strings: the empty string and undefined are falsy
OrString(a, b) == IF a # <<>> /\ a[1] # <<>> THEN a ELSE b

UpperCase == "ABCDEFGHIJKLMNOPQRSTUVWXYZ"
LowerCase == "abcdefghijklmnopqrstuvwxyz"

\* the lower-case form of one character
LowerChar(c) ==
    IF \E i \in 1..Len(UpperCase) : SubSeq(UpperCase, i, i) = c
    THEN LET i == CHOOSE i \in 1..Len(UpperCase) : SubSeq(UpperCase, i, i) = c
         IN SubSeq(LowerCase, i, i)
    ELSE c

\* new Date().toISOString(), the time of the call
Now == Chars("<now>")

\* the AppLog built from a parsed line
AppLogOf(logEntry) ==
    LET messageType == Property(logEntry, "messageType")
    IN [timestamp |-> OrString(Property(logEntry, "timestamp"), <<Now>>)[1],
        level |-> OrString(IF messageType = <<>> THEN <<>>
                           ELSE <<[i \in DOMAIN messageType[1] |->
                                      LowerChar(messageType[1][i])]>>,
                           <<Chars("info")>>)[1],
        subsystem |-> Property(logEntry, "subsystem"),
        category |-> Property(logEntry, "category"),
        message |-> OrString(Property(logEntry, "eventMessage"),
                      OrString(Property(logEntry, "message"), <<<<>>>>))[1]]

\* the body of the loop for one line: the calls of callback it makes; a
\* SyntaxError of JSON.parse and the TypeError of reading a property of null
\* are caught
callbacksOf(line) ==
    IF ~trimmed(line) THEN <<>>
    ELSE LET logEntry == JSONparse(line)
         IN IF "object" \in DOMAIN logEntry THEN <<AppLogOf(logEntry)>>
            ELSE <<>>

RECURSIVE callbacksOfAll(_)
callbacksOfAll(lines_) ==
    IF lines_ = <<>> THEN <<>>
    ELSE callbacksOf(Head(lines_)) \o callbacksOfAll(Tail(lines_))

\* the data listener: buffer += data.toString(); lines = buffer.split("\n");
\* buffer = lines.pop() || ""; then the loop over lines
onData(buffer_, data) ==
    LET pieces == split(buffer_ \o toString(data))
    IN [buffer |-> pieces[Len(pieces)],
        callbacks |-> callbacksOfAll(SubSeq(pieces, 1, Len(pieces) - 1))]

\* the lines a child writes: an entry with a two-byte character, an empty
\* object, the JSON value null, a line that is not JSON, a blank line
LineValues ==
    { Chars("{\"message\":\"") \o <<"C3", "A9">> \o Chars("\"}"),
      Chars("{}"),
      Chars("null"),
      Chars("{x"),
      Chars(" ") }

\* an unterminated last line
TailValues == { <<>>, Chars("{}") }

RECURSIVE terminated(_)
\* the lines, each followed by a newline
terminated(lines_) ==
    IF lines_ = <<>> THEN <<>>
    ELSE Head(lines_) \o <<"\n">> \o terminated(Tail(lines_))

Streams ==
    { terminated(ls) \o t : ls \in SeqUpTo(LineValues, MaxLines), t \in TailValues }

LogsInit ==
    /\ AuditIdle /\ TruncateIdle /\ SimIdle
    /\ stream \in Streams
    /\ emitted = 0
    /\ buffer = <<>>
    /\ delivered = <<>>

\* the child's stdout emits a data event with the next n bytes
Data(n) ==
    /\ emitted + n <= Len(stream)
    /\ LET after == onData(buffer, SubSeq(stream, emitted + 1, emitted + n))
       IN /\ buffer' = after.buffer
          /\ delivered' = delivered \o after.callbacks
    /\ emitted' = emitted + n
    /\ UNCHANGED <<stream, auditVars, truncateVars, simVars>>

LogsNext == \E n \in 1..Len(stream) : Data(n)

LogsSpec == LogsInit /\ [][LogsNext]_vars

\* the complete lines of the bytes emitted so far, decoded as one piece
CompleteLines ==
    LET pieces == split(toString(SubSeq(stream, 1, emitted)))
    IN SubSeq(pieces, 1, Len(pieces) - 1)

\* a line that is well-formed JSON
WellFormed(line) == "threw" \notin DOMAIN JSONparse(line)

\* C27: whatever the chunks, callback has been called exactly once for each
\* complete newline-terminated line that is well-formed JSON, in the order
\* of the stream and with the entry of that line; an unterminated line stays
\* in the buffer; malformed and blank lines are skipped.
C27_ChunkingIndependent ==
    LET wellFormed == SelectSeq(CompleteLines, WellFormed)
        pieces == split(toString(SubSeq(stream, 1, emitted)))
    IN /\ Len(delivered) = Len(wellFormed)
       /\ \A i \in DOMAIN wellFormed :
             "object" \in DOMAIN JSONparse(wellFormed[i]) =>
                 delivered[i] = AppLogOf(JSONparse(wellFormed[i]))
       /\ buffer = pieces[Len(pieces)]

\* the same, for streams without the JSON value null: only the chunking is
\* left to break it
C27_ObjectLinesOnly ==
    (\A i \in DOMAIN CompleteLines : CompleteLines[i] # Chars("null")) =>
        C27_ChunkingIndependent


\* ============================================================= simulators
BootTool == "ios_boot_device"

SimulatorDevice(udid, name, state, isAvailable) ==
    [udid |-> udid, name |-> name, state |-> state, isAvailable |-> isAvailable]

DeviceValues ==
    { SimulatorDevice("AAAA", "iPhone 15", "Booted", TRUE),
      SimulatorDevice("BBBB", "iPhone 15 Pro", "Shutdown", TRUE),
      SimulatorDevice("CCCC", "iPad Air", "Booted", FALSE),
      SimulatorDevice("DDDD", "iPhone SE", "Booting", TRUE) }

\* the lists simctl can report: no simulator twice
DeviceLists ==
    { ds \in SeqUpTo(DeviceValues, MaxDevices) :
        \A i, j \in DOMAIN ds : ds[i].udid = ds[j].udid => i = j }

\* what a caller passes as device: a udid, names in other case, no device
Identifiers == {"AAAA", "BBBB", "iphone 15 pro", "IPAD AIR", "DDDD", "iPhone 14"}

RECURSIVE toLowerCase(_)
\* str.toLowerCase()
toLowerCase(str) ==
    IF str = "" THEN ""
    ELSE LowerChar(SubSeq(str, 1, 1))
         \o toLowerCase(IF Len(str) = 1 THEN "" ELSE SubSeq(str, 2, Len(str)))

\* xcrun simctl <args>, as run by runSimctl
simctl(args) == <<"simctl">> \o args

\* the message of the error execAsync rejects with
commandFailed(command) == "Command failed: xcrun " \o join(command, " ")

listCommand == simctl(<<"list", "devices", "--json">>)
bootCommand(udid) == simctl(<<"boot", udid>>)
shutdownCommand(udid) == simctl(<<"shutdown", udid>>)

\* devices.find((d) => d.udid === identifier || d.name.toLowerCase() ===
\* identifier.toLowerCase()): <<d>>, or <<>> for undefined
getDevice(devices_, identifier) ==
    LET at == {i \in DOMAIN devices_ :
                  \/ devices_[i].udid = identifier
                  \/ toLowerCase(devices_[i].name) = toLowerCase(identifier)}
    IN IF at = {} THEN <<>>
       ELSE <<devices_[CHOOSE i \in at : \A j \in at : i <= j]>>

\* the simulators after simctl boot or shutdown of udid succeeded
withState(devices_, udid, state) ==
    [i \in DOMAIN devices_ |->
        IF devices_[i].udid = udid THEN [devices_[i] EXCEPT !.state = state]
        ELSE devices_[i]]

\* faulty variant: the state of the device is not looked at
isBooted_never(device) == FALSE

\* device.state === "Booted"
isBooted(device) == device.state = "Booted"

\* the tool's locals and log when a simulator tool is called
SimCall(t, p) ==
    /\ pc \in {"idle", "done"}
    /\ tool' = t
    /\ params' = p
    /\ target' = Unset
    /\ UNCHANGED <<format, touchResponse, contrastResponse, layoutResponse,
                   interactiveResponse, results, lines, issues, totalIssues>>
    /\ UNCHANGED <<devices, idbInstalled, truncateVars, logVars>>

\* a step of a running simulator tool leaves these alone
SimFrame ==
    UNCHANGED <<tool, format, touchResponse, contrastResponse, layoutResponse,
                interactiveResponse, results, lines, issues, totalIssues,
                params, idbInstalled, truncateVars, logVars>>

\* the handler goes on to its next await
Goto(label) == pc' = label /\ UNCHANGED <<inflight, requests, result>>

SimInit ==
    /\ AuditIdle /\ TruncateIdle /\ LogsIdle
    /\ devices \in DeviceLists
    /\ idbInstalled \in BOOLEAN
    /\ params = Unset
    /\ commands = <<>>
    /\ target = Unset

\* ios_boot_device is called: the handler runs up to await simctl.getDevice
InvokeBoot(identifier) ==
    /\ SimCall(BootTool, [device |-> identifier])
    /\ pc' = "getDevice"
    /\ commands' = <<listCommand>>
    /\ result' = Unset
    /\ UNCHANGED <<inflight, requests>>

\* ios_boot_device: simctl list throws, or getDevice resolves; the handler
\* throws, returns "already booted", or runs simctl boot
BootGetDeviceDone ==
    /\ tool = BootTool /\ pc = "getDevice"
    /\ SimFrame
    /\ UNCHANGED devices
    /\ \/ /\ Return(ErrorResult(commandFailed(listCommand)))
          /\ UNCHANGED <<commands, target>>
       \/ LET device == getDevice(devices, params.device)
          IN IF device = <<>>
             THEN /\ Return(ErrorResult("Device not found: " \o params.device))
                  /\ UNCHANGED <<commands, target>>
             ELSE /\ target' = device[1]
                  /\ IF isBooted(device[1])
                     THEN /\ Return(TextResult("Device " \o device[1].name
                                               \o " is already booted."))
                          /\ UNCHANGED commands
                     ELSE /\ commands' = Append(commands, bootCommand(device[1].udid))
                          /\ Goto("bootDevice")

\* ios_boot_device: simctl boot ends; the handler returns
BootDone ==
    /\ tool = BootTool /\ pc = "bootDevice"
    /\ SimFrame
    /\ UNCHANGED <<commands, target>>
    /\ \/ /\ devices' = withState(devices, target.udid, "Booted")
          /\ Return(TextResult("Started booting " \o target.name
                       \o ". Simulator window should appear shortly."))
       \/ /\ Return(ErrorResult(commandFailed(bootCommand(target.udid))))
          /\ UNCHANGED devices

\* ------------------------------------------------------------------ ios_tap
TapTool == "ios_tap"

\* TapSchema's refinement: (x and y) or a label
TapSchema(p) ==
    \/ "x" \in DOMAIN p /\ "y" \in DOMAIN p
    \/ Truthy(p, "label")

\* the arguments TapSchema accepts, among: a label, a label and coordinates,
\* coordinates, zero coordinates, an empty label with or without
\* coordinates, one coordinate, nothing
TapParams ==
    { p \in { [device |-> "booted", label |-> "OK"],
              [device |-> "booted", label |-> "Sign In", x |-> 10, y |-> 20],
              [device |-> "booted", x |-> 10, y |-> 20],
              [device |-> "booted", x |-> 0, y |-> 0],
              [device |-> "booted", label |-> "", x |-> 10, y |-> 20],
              [device |-> "booted", label |-> ""],
              [device |-> "booted", x |-> 10],
              [device |-> "booted"] } : TapSchema(p) }

RECURSIVE encodeURIComponent(_)
\* encodeURIComponent for letters, digits and the space
encodeURIComponent(str) ==
    IF str = "" THEN ""
    ELSE (IF SubSeq(str, 1, 1) = " " THEN "%20" ELSE SubSeq(str, 1, 1))
         \o encodeURIComponent(IF Len(str) = 1 THEN ""
                               ELSE SubSeq(str, 2, Len(str)))

\* the endpoint of debugClient.tapByLabel(label)
TapLabelEP(label) == "/tap/label/" \o encodeURIComponent(label)

\* what fetch() and response.json() can do for the POST of tapByLabel
TapOutcomes ==
    { [ok |-> TRUE, json |-> [tapped |-> TRUE]],
      [ok |-> FALSE, status |-> 404, statusText |-> "Not Found"],
      [threw |-> "fetch failed"],
      [ok |-> TRUE, threw |-> "Unexpected end of JSON input"] }

\* idb ui tap x y --udid udid, as run by runIdb
idbTapCommand(udid, x, y) ==
    <<"idb", "ui", "tap", ToString(x), ToString(y), "--udid", udid>>

\* the calls of the injected resolveDevice and of idb.isIdbInstalled
resolveCall(identifier) == <<"resolveDevice", identifier>>
isIdbInstalledCall == <<"isIdbInstalled">>

\* what the injected resolveDevice can do: resolve to the udid of a
\* simulator, or reject
ResolveOutcomes(devices_, identifier) ==
    { [udid |-> devices_[i].udid] : i \in DOMAIN devices_ }
    \cup { [threw |-> "No device found: " \o identifier] }

\* faulty variant: the coordinates are tested before the label
tapRoute_coordinatesFirst(p) ==
    IF "x" \in DOMAIN p /\ "y" \in DOMAIN p THEN "idb"
    ELSE IF Truthy(p, "label") THEN "label"
    ELSE "none"

\* if (params.label) ... else if (params.x !== undefined && params.y !==
\* undefined) ... : the branch the handler takes
tapRoute(p) ==
    IF Truthy(p, "label") THEN "label"
    ELSE IF "x" \in DOMAIN p /\ "y" \in DOMAIN p THEN "idb"
    ELSE "none"

\* ios_tap is called: the handler runs up to its first await, or throws
InvokeTap(p) ==
    /\ SimCall(TapTool, p)
    /\ CASE tapRoute(p) = "label" ->
              /\ pc' = "tapByLabel"
              /\ requests' = <<TapLabelEP(p.label)>>
              /\ inflight' = {TapLabelEP(p.label)}
              /\ commands' = <<>>
              /\ result' = Unset
         [] tapRoute(p) = "idb" ->
              /\ pc' = "resolveDevice"
              /\ requests' = <<>>
              /\ inflight' = {}
              /\ commands' = <<resolveCall(p.device)>>
              /\ result' = Unset
         [] OTHER ->
              /\ pc' = "done"
              /\ requests' = <<>>
              /\ inflight' = {}
              /\ commands' = <<>>
              /\ result' = ErrorResult("Either coordinates or label must be provided")

\* ios_tap: the request of tapByLabel completes; the handler returns
TapByLabelDone ==
    /\ tool = TapTool /\ pc = "tapByLabel"
    /\ SimFrame
    /\ UNCHANGED <<devices, commands, target>>
    /\ \E o \in TapOutcomes :
          IF request(o).success
          THEN Return(TextResult("Tapped on \"" \o params.label \o "\"."))
          ELSE Return(ErrorResult(request(o).error))

\* ios_tap: resolveDevice settles; the handler goes on to isIdbInstalled
TapResolveDone ==
    /\ tool = TapTool /\ pc = "resolveDevice"
    /\ SimFrame
    /\ UNCHANGED devices
    /\ \E o \in ResolveOutcomes(devices, params.device) :
          IF "threw" \in DOMAIN o
          THEN Return(ErrorResult(o.threw)) /\ UNCHANGED <<commands, target>>
          ELSE /\ target' = o
               /\ commands' = Append(commands, isIdbInstalledCall)
               /\ Goto("isIdbInstalled")

\* ios_tap: isIdbInstalled resolves; the handler throws or calls idb.tap,
\* whose runIdb finds the same idb and runs the command
TapIdbCheckDone ==
    /\ tool = TapTool /\ pc = "isIdbInstalled"
    /\ SimFrame
    /\ UNCHANGED <<devices, target>>
    /\ IF ~idbInstalled
       THEN /\ Return(ErrorResult("IDB not installed. Install with: brew install idb-companion && pip install fb-idb"))
            /\ UNCHANGED commands
       ELSE /\ commands' = Append(commands,
                              idbTapCommand(target.udid, params.x, params.y))
            /\ Goto("tap")

\* ios_tap: the idb command ends; the handler returns
TapDone ==
    /\ tool = TapTool /\ pc = "tap"
    /\ SimFrame
    /\ UNCHANGED <<devices, commands, target>>
    /\ \/ Return(TextResult("Tapped at (" \o NumberText(params.x) \o ", "
                            \o NumberText(params.y) \o ")."))
       \/ Return(ErrorResult("Command failed: "
                    \o join(idbTapCommand(target.udid, params.x, params.y), " ")))

\* ------------------------------------------------------- e2e smoke test
E2E == "e2e"

listAppsCommand(udid) == simctl(<<"listapps", udid, "--json">>)
screenshotCommand(udid, outputPath) ==
    simctl(<<"io", udid, "screenshot", outputPath>>)

\* `/tmp/mcp_e2e_${Date.now()}.png`
screenshotPath == "/tmp/mcp_e2e_<now>.png"

\* devices.find((d) => d.state === state): <<d>>, or <<>> for undefined
findState(devices_, state) ==
    LET at == {i \in DOMAIN devices_ : devices_[i].state = state}
    IN IF at = {} THEN <<>>
       ELSE <<devices_[CHOOSE i \in at : \A j \in at : i <= j]>>

\* the body of pickTargetDevice over the list it searches; Unset for null
pickTarget(available) ==
    IF findState(available, "Booted") # <<>>
    THEN [device |-> findState(available, "Booted")[1], alreadyBooted |-> TRUE]
    ELSE IF findState(available, "Shutdown") # <<>>
    THEN [device |-> findState(available, "Shutdown")[1], alreadyBooted |-> FALSE]
    ELSE Unset

\* faulty variant: unavailable simulators are searched too
pickTargetDevice_unavailable(devices_) == pickTarget(devices_)

\* pickTargetDevice(devices)
pickTargetDevice(devices_) ==
    pickTarget(SelectSeq(devices_, LAMBDA d : d.isAvailable))

\* the script ends with this exit code
Exit(code) ==
    /\ pc' = "done"
    /\ result' = [exit |-> code]
    /\ UNCHANGED <<inflight, requests>>

\* the script is started: it runs up to await listDevices()
E2EStart ==
    /\ SimCall(E2E, Unset)
    /\ pc' = "listDevices"
    /\ commands' = <<listCommand>>
    /\ result' = Unset
    /\ UNCHANGED <<inflight, requests>>

\* simctl list ends: the script exits, or picks its target and boots it
\* when it was not booted, or goes on to listApps
E2EListDone ==
    /\ tool = E2E /\ pc = "listDevices"
    /\ SimFrame
    /\ UNCHANGED devices
    /\ \/ Exit(1) /\ UNCHANGED <<commands, target>>
       \/ /\ target' = pickTargetDevice(devices)
          /\ IF target' = Unset
             THEN Exit(1) /\ UNCHANGED commands
             ELSE IF ~target'.alreadyBooted
             THEN /\ commands' = Append(commands, bootCommand(target'.device.udid))
                  /\ Goto("bootDevice")
             ELSE /\ commands' = Append(commands, listAppsCommand(target'.device.udid))
                  /\ Goto("listApps")

\* simctl boot ends: after the sleep the script goes on to listApps, or exits
E2EBootDone ==
    /\ tool = E2E /\ pc = "bootDevice"
    /\ SimFrame
    /\ UNCHANGED target
    /\ \/ /\ devices' = withState(devices, target.device.udid, "Booted")
          /\ commands' = Append(commands, listAppsCommand(target.device.udid))
          /\ Goto("listApps")
       \/ Exit(1) /\ UNCHANGED <<devices, commands>>

\* simctl listapps ends: whether it succeeded or its error was caught and
\* logged, the script goes on to takeScreenshot
E2EListAppsDone ==
    /\ tool = E2E /\ pc = "listApps"
    /\ SimFrame
    /\ UNCHANGED <<devices, target>>
    /\ commands' = Append(commands,
                      screenshotCommand(target.device.udid, screenshotPath))
    /\ Goto("takeScreenshot")

\* simctl io screenshot ends: the script shuts the device down when it had
\* booted it, completes, or exits
E2EScreenshotDone ==
    /\ tool = E2E /\ pc = "takeScreenshot"
    /\ SimFrame
    /\ UNCHANGED <<devices, target>>
    /\ \/ IF ~target.alreadyBooted
          THEN /\ commands' = Append(commands, shutdownCommand(target.device.udid))
               /\ Goto("shutdownDevice")
          ELSE Exit(0) /\ UNCHANGED commands
       \/ Exit(1) /\ UNCHANGED commands

\* simctl shutdown ends: the script completes, or exits
E2EShutdownDone ==
    /\ tool = E2E /\ pc = "shutdownDevice"
    /\ SimFrame
    /\ UNCHANGED <<commands, target>>
    /\ \/ /\ devices' = withState(devices, target.device.udid, "Shutdown")
          /\ Exit(0)
       \/ Exit(1) /\ UNCHANGED devices

SimNext ==
    \/ \E identifier \in Identifiers : InvokeBoot(identifier)
    \/ BootGetDeviceDone
    \/ BootDone
    \/ \E p \in TapParams : InvokeTap(p)
    \/ TapByLabelDone
    \/ TapResolveDone
    \/ TapIdbCheckDone
    \/ TapDone
    \/ E2EStart
    \/ E2EListDone
    \/ E2EBootDone
    \/ E2EListAppsDone
    \/ E2EScreenshotDone
    \/ E2EShutdownDone

SimSpec == SimInit /\ [][SimNext]_vars

\* the boot commands run by the running invocation
BootCommands == SelectSeq(commands, LAMBDA c : Len(c) >= 2 /\ c[2] = "boot")

BootToolDone == tool = BootTool /\ pc = "done"

\* the simulators the identifier of the call names
Matching ==
    { i \in DOMAIN devices :
        \/ devices[i].udid = params.device
        \/ toLowerCase(devices[i].name) = toLowerCase(params.device) }

\* C28: when ios_boot_device returns: if the device it resolved was Booted
\* it ran no boot command and the result is the non-error "already booted"
\* text; if no simulator matches the identifier the result is an error and no
\* boot command was run; if it resolved a device in another state it ran
\* exactly one boot command, for that device's udid. The device resolved is
\* the first simulator whose udid or (case aside) name is the identifier.
C28_BootIdempotent ==
    BootToolDone =>
        /\ Matching = {} =>
              /\ IsError(result)
              /\ BootCommands = <<>>
              /\ target = Unset
        /\ target # Unset =>
              /\ \E i \in Matching :
                    /\ devices[i].udid = target.udid
                    /\ \A j \in Matching : i <= j
              /\ target.state = "Booted" =>
                    /\ ~IsError(result)
                    /\ TextOf(result) =
                          "Device " \o target.name \o " is already booted."
                    /\ BootCommands = <<>>
              /\ target.state # "Booted" =>
                    BootCommands = <<bootCommand(target.udid)>>
        /\ (target = Unset /\ Matching # {}) =>
              /\ IsError(result)
              /\ BootCommands = <<>>
              /\ TextOf(result) = "Error: " \o commandFailed(listCommand)

\* a second call for a simulator that the call before booted: no command
C28_Witness ==
    /\ BootToolDone
    /\ params.device = "iphone 15 pro"
    /\ target # Unset /\ target.udid = "BBBB" /\ target.state = "Booted"
    /\ BootCommands = <<>>
    /\ ~IsError(result)

\* a call that ran the boot command
C28_BootWitness ==
    /\ BootToolDone
    /\ target # Unset /\ target.state = "Shutdown"
    /\ BootCommands = <<bootCommand("BBBB")>>


\* the idb tap commands run by the running invocation
IdbTaps == SelectSeq(commands, LAMBDA c : c[1] = "idb")

\* C29: a call of ios_tap dispatches at most one tap, by one route: with a
\* non-empty label it is the request to the debug server, and neither the
\* device resolver nor idb is called, coordinates or not; without a label
\* the idb tap is run only after the device was resolved and idb was found
\* installed, for that device and the coordinates given; when the resolver
\* rejects or idb is not installed the result is an error and no tap was
\* dispatched.
C29_OneTapOneRoute ==
    tool = TapTool =>
        /\ Len(requests) + Len(IdbTaps) <= 1
        /\ Truthy(params, "label") =>
              /\ commands = <<>>
              /\ target = Unset
              /\ requests = <<"/tap/label/" \o encodeURIComponent(params.label)>>
        /\ ~Truthy(params, "label") =>
              /\ requests = <<>>
              /\ IdbTaps # <<>> =>
                    /\ target # Unset
                    /\ idbInstalled
                    /\ commands = << resolveCall(params.device),
                                     isIdbInstalledCall,
                                     idbTapCommand(target.udid, params.x, params.y) >>
              /\ (pc = "done" /\ (target = Unset \/ ~idbInstalled)) =>
                    /\ IsError(result)
                    /\ IdbTaps = <<>>
        /\ (pc = "done" /\ ~IsError(result)) =>
              Len(requests) + Len(IdbTaps) = 1

\* a call with a label and coordinates that tapped by label
C29_Witness ==
    /\ tool = TapTool /\ pc = "done"
    /\ Truthy(params, "label") /\ "x" \in DOMAIN params
    /\ ~IsError(result)
    /\ requests = <<"/tap/label/Sign%20In">>
    /\ commands = <<>>

\* a call with coordinates that tapped through idb
C29_IdbWitness ==
    /\ tool = TapTool /\ pc = "done"
    /\ ~Truthy(params, "label")
    /\ ~IsError(result)
    /\ Len(IdbTaps) = 1


\* the commands of the running script for udid
Booted(udid) == SelectSeq(commands, LAMBDA c : c = bootCommand(udid))
ShutDown(udid) == SelectSeq(commands, LAMBDA c : c = shutdownCommand(udid))

\* the place of the simulator udid in the list
PlaceOf(udid) == CHOOSE i \in DOMAIN devices : devices[i].udid = udid

\* C30: the e2e smoke test targets an available simulator: one that was
\* Booted when listed if there is one, otherwise the first available
\* Shutdown one; it runs simctl boot only for a target that was not booted,
\* and no boot or shutdown for any other simulator; a simulator that was
\* booted when listed is never shut down; and when the script completes
\* with exit code 0 it has run shutdown exactly when it had run boot, and
\* the target is in the state it was listed in.
C30_BootStateRestored ==
    (tool = E2E /\ target # Unset) =>
        LET udid == target.device.udid
            others == {i \in DOMAIN devices : devices[i].udid # udid}
        IN /\ target.device.isAvailable
           /\ \E i \in DOMAIN devices : devices[i].udid = udid
           /\ IF target.alreadyBooted
              THEN /\ target.device.state = "Booted"
                   /\ \A j \in 1..(PlaceOf(udid) - 1) :
                         ~(devices[j].isAvailable /\ devices[j].state = "Booted")
              ELSE /\ target.device.state = "Shutdown"
                   /\ \A j \in others :
                         ~(devices[j].isAvailable /\ devices[j].state = "Booted")
                   /\ \A j \in 1..(PlaceOf(udid) - 1) :
                         ~(devices[j].isAvailable /\ devices[j].state = "Shutdown")
           /\ Len(Booted(udid)) = (IF target.alreadyBooted \/ pc = "listDevices"
                                   THEN 0 ELSE 1)
           /\ Len(ShutDown(udid)) <= Len(Booted(udid))
           /\ \A j \in others :
                 /\ Booted(devices[j].udid) = <<>>
                 /\ ShutDown(devices[j].udid) = <<>>
           /\ (pc = "done" /\ result = [exit |-> 0]) =>
                 /\ Len(ShutDown(udid)) = Len(Booted(udid))
                 /\ devices[PlaceOf(udid)].state = target.device.state

\* the script booted a Shutdown simulator, completed and shut it down
C30_Witness ==
    /\ tool = E2E /\ pc = "done" /\ result = [exit |-> 0]
    /\ target # Unset /\ ~target.alreadyBooted
    /\ Len(Booted(target.device.udid)) = 1
    /\ Len(ShutDown(target.device.udid)) = 1
    /\ \E i \in DOMAIN devices : ~devices[i].isAvailable /\ devices[i].state = "Booted"

\* the script used a Booted simulator, completed and left it Booted
C30_BootedWitness ==
    /\ tool = E2E /\ pc = "done" /\ result = [exit |-> 0]
    /\ target # Unset /\ target.alreadyBooted
    /\ devices[PlaceOf(target.device.udid)].state = "Booted"
    /\ Len(devices) > 1

====
